---- MODULE Spec2Model ----
(***************************************************************************)
(* language-server-cc: the AST resolution and cross-reference engine.      *)
(*                                                                         *)
(* The server answers editor requests (hover, goto-definition,             *)
(* goto-declaration, find-references, call hierarchy, semantic tokens) by  *)
(* querying a read-only AST snapshot (tables src, ast, tok, loc) through   *)
(* the Query singleton.  Every request is an async pipeline of handlers;   *)
(* it can be                                                               *)
(* suspended at each store call and at each file read, so the model has    *)
(* one action per awaited call: the action completes the awaited call and  *)
(* runs the synchronous code up to the next await.                         *)
(*                                                                         *)
(* Rows and columns of the store are 1-based, editor positions are         *)
(* 0-based.  A ptr identity is modelled as the pair <<"0x", n>>, the       *)
(* absent ptr (null) as <<>>, the absent row (undefined) as a row whose    *)
(* number is 0.  Characters are their char codes.                          *)
(***************************************************************************)
EXTENDS Integers, Sequences, FiniteSets, TLC

\* Longest redeclaration chain of a generated snapshot.
MaxChain == 3
\* Number of requests the server receives (all may be in flight at once).
MaxReq == 2

VARIABLES
  world,         \* the disk and the snapshots: fixed after Init
  tu,            \* Query.#tu: the active translation unit's path ("" = unset)
  db,            \* Query.db: the active connection (0 = undefined)
  allDatabases,  \* Query.#allDatabases: path -> connection (0 = no entry)
                 \* (the connection opened on a path is named by Handle)
  documents,     \* the text-document cache: uri -> cached or not
  docWrites,     \* history: number of documents.set calls per uri
  req            \* the requests: request -> its context (Value)

vars == <<world, tu, db, allDatabases, documents, docWrites, req>>

Min(a, b) == IF a <= b THEN a ELSE b
Max(a, b) == IF a >= b THEN a ELSE b

(***************************************************************************)
(* Text documents (vscode-languageserver-textdocument, as used by          *)
(* getTokenHead).                                                          *)
(***************************************************************************)
Pos(l, c) == [line |-> l, character |-> c]
NoPos == [line |-> -1, character |-> -1]

\* 0-based offsets of the line starts of text t (a sequence of char codes).
LineOffsets(t) ==
  <<0>> \o SelectSeq([i \in 1..Len(t) |-> i], LAMBDA i : t[i] = 10)

OffsetAt(t, p) ==
  LET lo == LineOffsets(t)
  IN  IF p.line >= Len(lo) THEN Len(t)
      ELSE IF p.line < 0 THEN 0
      ELSE LET s  == lo[p.line + 1]
               nx == IF p.line + 1 < Len(lo) THEN lo[p.line + 2] ELSE Len(t)
           IN  IF p.character <= 0 THEN s ELSE Min(s + p.character, nx)

PositionAt(t, o) ==
  LET lo  == LineOffsets(t)
      off == Max(Min(o, Len(t)), 0)
      k   == CHOOSE j \in 1..Len(lo) :
               lo[j] <= off /\ (j = Len(lo) \/ lo[j + 1] > off)
  IN  Pos(k - 1, off - lo[k])

\* charCodeAt(0) of getText({start, end}); -1 stands for NaN (empty text).
FirstCharCode(t, start, end) ==
  LET a == OffsetAt(t, start)
      b == OffsetAt(t, end)
  IN  IF a < b THEN t[a + 1] ELSE -1

\* isPartOfIdentifier as it would be without the range [A-Z].
isPartOfIdentifier_lower(ch) ==
  \/ (48 <= ch /\ ch <= 57)
  \/ ch = 95
  \/ (97 <= ch /\ ch <= 122)

isPartOfIdentifier(ch) ==
  \/ (48 <= ch /\ ch <= 57)
  \/ (65 <= ch /\ ch <= 90)
  \/ ch = 95
  \/ (97 <= ch /\ ch <= 122)

\* One pass of the do-while of getTokenHead, entered with (start, offset).
RECURSIVE TokenHeadLoop(_, _, _)
TokenHeadLoop(t, start, offset) ==
  LET end == start
      o1  == offset - 1
      s1  == PositionAt(t, o1)
  IN  IF ~isPartOfIdentifier(FirstCharCode(t, s1, end)) THEN end
      ELSE IF o1 >= 0 THEN TokenHeadLoop(t, s1, o1)
      ELSE end

getTokenHead(t, start) == TokenHeadLoop(t, start, OffsetAt(t, start))

(***************************************************************************)
(* The snapshot: rows of the tables src, ast, tok and loc.                 *)
(***************************************************************************)
Ptr(n) == <<"0x", n>>
NoPtr == <<>>

SEMANTIC_EXPANSION == 0
SEMANTIC_INACTIVE == 1

AstRow(number, kind, name, prev, ref, src, row, col) ==
  [number |-> number, parent_number |-> 0, final_number |-> number,
   kind |-> kind, name |-> name, class |-> 0,
   ptr |-> Ptr(number), prev |-> prev, ref_ptr |-> ref,
   begin_src |-> src, begin_row |-> row, begin_col |-> col]

\* undefined, as a row: every field readable, number 0.
NoNode ==
  [number |-> 0, parent_number |-> 0, final_number |-> 0,
   kind |-> "", name |-> "", class |-> 0,
   ptr |-> NoPtr, prev |-> NoPtr, ref_ptr |-> NoPtr,
   begin_src |-> 0, begin_row |-> 0, begin_col |-> 0]

TokRow(src, row, col, decl) ==
  [src |-> src, begin_row |-> row, begin_col |-> col, decl |-> decl]
NoToken == [src |-> 0, begin_row |-> 0, begin_col |-> 0, decl |-> 0]

LocRow(src, br, bc, er, ec, sem) ==
  [begin_src |-> src, begin_row |-> br, begin_col |-> bc,
   end_src |-> src, end_row |-> er, end_col |-> ec, semantics |-> sem]
NoLoc == LocRow(0, 0, 0, 0, 0, 0)

SrcRow(number, filename) == [number |-> number, filename |-> filename]

\* The files on disk.  /x.c is a file no translation unit was built from.
FileA == "/a.c"
FileH == "/h.h"
FileX == "/x.c"
Builtin == "<built-in>"
Files == {FileA, FileH, FileX}

\* "ff;\n" repeated for the rows 1..n.
RECURSIVE DeclLines(_)
DeclLines(n) == IF n = 0 THEN <<>> ELSE DeclLines(n - 1) \o <<102, 102, 59, 10>>

\* The text of a file on disk, for a chain of L declarations:
\*   /a.c  rows 1..L  "ff;"      a declaration of ff on each row
\*         row L+1    "ff M(v)"  a reference to ff and a macro invocation
\*   /h.h  row 1      "ff;"
\*   /x.c  row 1      "ff"
DiskText(L, file) ==
  IF file = FileA
  THEN DeclLines(L) \o <<102, 102, 32, 77, 40, 118, 41>>
  ELSE IF file = FileH THEN <<102, 102, 59>>
  ELSE <<102, 102>>

\* A translation unit of the world with chain length L.  c.firstSrc says
\* where the oldest declaration of ff lives: 1 = /a.c row 1, 2 = /h.h row 1
\* (row 1 of /a.c is then an inactive region without tokens), -1 = nowhere
\* (an implicit declaration; row 1 of /a.c then carries a token without a
\* declaration).  c.refTo is the declaration the reference on row L+1
\* refers to (0: one that is not in the snapshot).  c.tokAtM says whether
\* the macro invocation M(v) has a token at its begin.  c.member says
\* whether ff is a record member: the rows 1..L are then L fields (without
\* prev) and the reference is a MemberExpr.  c.at says what M(v) is:
\* "macro" = an expanded macro invocation, "paren" = the same with the row
\* of the expansion's outermost expression stored before the ExpansionDecl
\* row, "inactive" = text of an inactive region (no rows, no tokens).
Snapshot(L, c) ==
  [src |-> <<SrcRow(1, FileA), SrcRow(2, FileH), SrcRow(3, Builtin)>>,
   ast |->
     [i \in 1..L |->
        AstRow(i, IF c.member THEN "FieldDecl" ELSE "FunctionDecl", "ff",
               IF i = 1 \/ c.member THEN NoPtr ELSE Ptr(i - 1), NoPtr,
               IF i = 1 THEN c.firstSrc ELSE 1,
               IF i = 1 /\ c.firstSrc = 2 THEN 1
               ELSE IF i = 1 /\ c.firstSrc = -1 THEN 0 ELSE i,
               IF i = 1 /\ c.firstSrc = -1 THEN 0 ELSE 1)]
     \o <<AstRow(L + 1, IF c.member THEN "MemberExpr" ELSE "DeclRefExpr",
                 "ff", NoPtr,
                 IF c.refTo = 0 THEN Ptr(L + 9) ELSE Ptr(c.refTo), 1, L + 1, 1)>>
     \o (IF c.at = "macro"
         THEN <<AstRow(L + 2, "ExpansionDecl", "M", NoPtr, Ptr(L + 3), 1, L + 1, 4),
                AstRow(L + 3, "MacroDecl", "", NoPtr, NoPtr, 3, 1, 1)>>
         ELSE IF c.at = "paren"
         THEN <<AstRow(L + 2, "ParenExpr", "", NoPtr, NoPtr, 1, L + 1, 4),
                AstRow(L + 3, "ExpansionDecl", "M", NoPtr, Ptr(L + 4), 1, L + 1, 4),
                AstRow(L + 4, "MacroDecl", "", NoPtr, NoPtr, 3, 1, 1)>>
         ELSE <<>>),
   tok |->
     (IF c.firstSrc = 1 THEN <<TokRow(1, 1, 1, 1)>>
      ELSE IF c.firstSrc = 2 THEN <<TokRow(2, 1, 1, 1)>>
      ELSE <<TokRow(1, 1, 1, 0)>>)
     \o [i \in 1..(L - 1) |-> TokRow(1, i + 1, 1, i + 1)]
     \o <<TokRow(1, L + 1, 1, L + 1)>>
     \o (IF c.at # "inactive" THEN <<TokRow(1, L + 1, 6, L + 1)>> ELSE <<>>)
     \o (IF c.tokAtM /\ c.at # "inactive"
         THEN <<TokRow(1, L + 1, 4, IF c.at = "paren" THEN L + 3 ELSE L + 2)>>
         ELSE <<>>),
   loc |->
     (IF c.firstSrc = 2
      THEN <<LocRow(1, 1, 1, 1, 4, SEMANTIC_INACTIVE)>> ELSE <<>>)
     \o <<LocRow(1, L + 1, 4, L + 1, 8,
                 IF c.at = "inactive" THEN SEMANTIC_INACTIVE
                 ELSE SEMANTIC_EXPANSION)>>]

Paths == {"a.o", "b.o"}

\* new sqlite3.Database(path): the connection opened on path.
Handle(path) == IF path = "a.o" THEN 1 ELSE 2

TuConfigs(L) ==
  [refTo : 0..L, firstSrc : {1, 2, -1}, tokAtM : BOOLEAN, member : BOOLEAN,
   at : {"macro"}]

\* The snapshot stored at path p.
SnapshotAt(p) == Snapshot(world.L, world.tus[p])
\* The snapshot behind connection h (h > 0).
SnapshotOf(h) == SnapshotAt(CHOOSE p \in Paths : Handle(p) = h)
TextOf(file) == DiskText(world.L, file)

(***************************************************************************)
(* Query: the store accessors.  A call ends as a resolved promise          *)
(* (err = "") carrying val, or as a rejected one.  db.get yields the first *)
(* matching row in stored order, or undefined.                             *)
(***************************************************************************)
Resolve(v) == [err |-> "", val |-> v]
Reject(e) == [err |-> e, val |-> 0]

First(rows, none) == IF rows = <<>> THEN none ELSE rows[1]

\* Query.filename as it would be with row?.filename in place of the
\* NotFound rejection: a missing src row yields no filename.
Query_filename_undefined(S, src) ==
  LET rows == SelectSeq(S.src, LAMBDA r : r.number = src)
  IN  IF rows = <<>> THEN Resolve("") ELSE Resolve(rows[1].filename)

Query_filename(S, src) ==
  LET rows == SelectSeq(S.src, LAMBDA r : r.number = src)
  IN  IF rows = <<>> THEN Reject("NotFound") ELSE Resolve(rows[1].filename)

Query_src(S, file) ==
  LET rows == SelectSeq(S.src, LAMBDA r : r.filename = file)
  IN  IF rows = <<>> THEN Reject("NotFound") ELSE Resolve(rows[1].number)

\* The row of loc that Query.loc selects for the editor position pos.
LocContains(x, src, row, col, semantics) ==
  /\ x.begin_src = src /\ x.end_src = src
  /\ ((x.begin_row = row /\ x.begin_col <= col) \/ x.begin_row < row)
  /\ ((x.end_row = row /\ x.end_col > col) \/ x.end_row > row)
  /\ x.semantics = semantics

\* Query.loc as it would be without the test of semantics.
Query_loc_any(S, src, pos) ==
  LET range == First(SelectSeq(S.loc, LAMBDA x :
                 LocContains(x, src, pos.line + 1, pos.character + 1,
                             x.semantics)), NoLoc)
  IN  Resolve(IF range # NoLoc
              THEN Pos(range.begin_row - 1, range.begin_col - 1)
              ELSE NoPos)

Query_loc(S, src, pos) ==
  LET range == First(SelectSeq(S.loc, LAMBDA x :
                 LocContains(x, src, pos.line + 1, pos.character + 1,
                             SEMANTIC_EXPANSION)), NoLoc)
  IN  Resolve(IF range # NoLoc
              THEN Pos(range.begin_row - 1, range.begin_col - 1)
              ELSE NoPos)

Query_token(S, src, pos) ==
  Resolve(First(SelectSeq(S.tok, LAMBDA x :
            /\ x.src = src
            /\ x.begin_row = pos.line + 1
            /\ x.begin_col = pos.character + 1), NoToken))

\* Query.node with a number
Query_node(S, number) ==
  Resolve(First(SelectSeq(S.ast, LAMBDA x : x.number = number), NoNode))

\* Query.node with a string (a ptr)
Query_nodeByPtr(S, ptr) ==
  Resolve(First(SelectSeq(S.ast, LAMBDA x : x.ptr = ptr), NoNode))

\* The db.get of Query.decl: the first ast row that begins at pos.
Query_declRow(S, src, pos) ==
  Resolve(First(SelectSeq(S.ast, LAMBDA x :
            /\ x.begin_src = src
            /\ x.begin_row = pos.line + 1
            /\ x.begin_col = pos.character + 1), NoNode))

\* Query.next as it would be if it matched on the row's own ptr: the row
\* found is the current one, not its redeclaration.
Query_next_self(S, ptr) ==
  Resolve(First(SelectSeq(S.ast, LAMBDA x : x.ptr = ptr), NoNode))

Query_next(S, ptr) ==
  Resolve(First(SelectSeq(S.ast, LAMBDA x : x.prev = ptr), NoNode))

\* Query.refs(ptrs, option); option.src = "null" stands for no src.
Query_refsWith(S, ptrs, option) ==
  Resolve(SelectSeq(S.ast, LAMBDA x :
            /\ option.src # "null" => x.begin_src = option.src
            /\ x.kind = IF option.member THEN "MemberExpr" ELSE "DeclRefExpr"
            /\ \E k \in 1..Len(ptrs) : x.ref_ptr = ptrs[k]))

\* option || {}
NoOption == [member |-> FALSE, src |-> "null"]

\* Query.refs(ptrs), as referencesHandler and onIncomingCalls call it.
Query_refs(S, ptrs) == Query_refsWith(S, ptrs, NoOption)

Query_children(S, number) ==
  Resolve(SelectSeq(S.ast, LAMBDA x : x.parent_number = number))

Query_range(S, first, last) ==
  Resolve(SelectSeq(S.ast, LAMBDA x : x.number >= first /\ x.number <= last))

\* kind.endsWith("Decl")
EndsWithDecl(kind) ==
  kind \in {"FunctionDecl", "VarDecl", "FieldDecl", "RecordDecl",
            "TypedefDecl", "MacroDecl", "ExpansionDecl"}

\* filename.startsWith("<")
StartsWithLt(filename) == filename = Builtin

getSymbolKind(node) ==
  IF node.kind = "FunctionDecl" THEN 12
  ELSE IF node.kind = "RecordDecl" /\ node.class = 1 THEN 23
  ELSE IF node.kind = "RecordDecl" /\ node.class = 2 THEN 100
  ELSE IF node.kind = "RecordDecl" /\ node.class = 3 THEN 10
  ELSE IF node.kind = "VarDecl" THEN 13
  ELSE IF node.kind = "TypedefDecl" THEN 101
  ELSE 0

(***************************************************************************)
(* The request context (Value) and the synchronous code between awaits.    *)
(* Each operator below takes the context v at the entry of a handler and   *)
(* yields the context at the next await (pc names the awaited call) or at  *)
(* the end of the request (pc = "done").                                   *)
(***************************************************************************)
Requests == 1..MaxReq

Kinds == {"hover", "definition", "declaration", "references", "prepare"}

Idle ==
  [pc |-> "idle", kind |-> "", incl |-> FALSE, file |-> "", position |-> NoPos,
   h0 |-> 0, hc |-> 0, calls |-> 0,
   src |-> 0, pos |-> NoPos, loc |-> NoPos, token |-> NoToken,
   node |-> NoNode, linked |-> FALSE, link |-> <<>>, decl |-> NoNode,
   i |-> 0, uri |-> "", mark |-> FALSE, null |-> FALSE, out |-> <<>>,
   err |-> ""]

\* The end of a request: its context is dropped, the request (kind, incl,
\* file, position) is kept beside the outcome.
Ended(v) ==
  [Idle EXCEPT !.kind = v.kind, !.incl = v.incl, !.file = v.file,
               !.position = v.position]

\* The handler throws: the request fails with the error e.
Failed(v, e) == [Ended(v) EXCEPT !.pc = "failed", !.err = e]

\* The response: null, or the list out.
Respond(v, null, out) ==
  [Ended(v) EXCEPT !.pc = "done", !.null = null, !.out = out,
                   !.mark = v.mark]

LinkOf(file, node) == [uri |-> file, number |-> node.number]

\* linkHandler's loop at element i of value.link, then locationHandler for
\* find-references (a map that keeps the list, or null).
LinkLoop(v, i) ==
  IF i > Len(v.link) THEN Respond(v, FALSE, v.out)
  ELSE [v EXCEPT !.pc = "linkfile", !.i = i]

\* linkHandler as it would be if it answered an empty list when there is
\* no link.
linkHandler_empty(v) ==
  IF v.linked THEN LinkLoop([v EXCEPT !.out = <<>>], 1)
  ELSE Respond(v, FALSE, <<>>)

linkHandler(v) ==
  IF v.linked THEN LinkLoop([v EXCEPT !.out = <<>>], 1)
  ELSE Respond(v, TRUE, <<>>)

\* The function prepareCallHierarchyHandler returns.
prepareCallHierarchyHandler(v) ==
  IF ~v.linked \/ v.node = NoNode \/ v.node.name = "" THEN Respond(v, TRUE, <<>>)
  ELSE IF getSymbolKind(v.node) = 0 THEN Respond(v, TRUE, <<>>)
  ELSE Respond(v, FALSE, <<LinkOf(v.file, v.node)>>)

\* The function referencesHandler(context) returns.
referencesHandler(v) ==
  IF v.linked THEN [v EXCEPT !.pc = "refs"] ELSE linkHandler(v)

\* The handlers after declarationHandler, by request.
AfterDeclaration(v) ==
  IF v.kind = "references" THEN referencesHandler(v)
  ELSE IF v.kind = "prepare" THEN prepareCallHierarchyHandler(v)
  ELSE linkHandler(v)

\* getDeclaration as it would be with an if in place of the while: only
\* the declaration just before the definition is collected.
getDeclaration_once(v) ==
  IF v.decl # NoNode /\ v.decl.prev # NoPtr /\ Len(v.link) < 2
  THEN [v EXCEPT !.pc = "prev"]
  ELSE AfterDeclaration(v)

\* getDeclaration's loop test, with decl the node reached so far.
getDeclaration(v) ==
  IF v.decl # NoNode /\ v.decl.prev # NoPtr THEN [v EXCEPT !.pc = "prev"]
  ELSE AfterDeclaration(v)

declarationHandler(v) ==
  IF v.linked
  THEN getDeclaration([v EXCEPT !.decl = IF v.link = <<>> THEN NoNode
                                         ELSE v.link[1]])
  ELSE AfterDeclaration(v)

\* The end of definitionHandler, with decl what getDefinition returned.
AfterDefinition(v) ==
  LET w == [v EXCEPT !.link = IF v.decl # NoNode THEN <<v.decl>> ELSE <<>>]
  IN  IF v.kind = "definition" THEN linkHandler(w) ELSE declarationHandler(w)

\* getDefinition's switch on decl.kind, and the test of its while loop.
getDefinition(v) ==
  IF v.decl.kind = "FunctionDecl" THEN [v EXCEPT !.pc = "next"]
  ELSE AfterDefinition(v)

definitionHandler(v) ==
  IF v.node # NoNode
  THEN LET w == [v EXCEPT !.linked = TRUE, !.link = <<>>]
       IN  IF v.node.ref_ptr # NoPtr THEN [w EXCEPT !.pc = "defref"]
           ELSE getDefinition([w EXCEPT !.decl = v.node])
  ELSE IF v.kind = "definition" THEN linkHandler(v)
  ELSE declarationHandler(v)

\* The handlers after tokenHandler, by request; markHandler answers null
\* when hoverHandler had no node.
AfterToken(v) ==
  IF v.kind = "hover"
  THEN IF v.node # NoNode THEN [v EXCEPT !.pc = "hover"]
       ELSE Respond(v, TRUE, <<>>)
  ELSE definitionHandler(v)

tokenHandler(v) ==
  IF v.token # NoToken THEN [v EXCEPT !.pc = "node"] ELSE [v EXCEPT !.pc = "decl"]

\* The store calls of hoverHandler(node): whether one of them rejects, and
\* whether value.mark is set.  (query.node, query.children and query.range
\* do not reject; query.filename does.)
RECURSIVE hoverHandler(_, _)
hoverHandler(S, node) ==
  IF node = NoNode THEN [err |-> "", mark |-> FALSE]
  ELSE IF node.kind = "ExpansionDecl"
  THEN IF node.ref_ptr # NoPtr
       THEN LET v == hoverHandler(S, Query_nodeByPtr(S, node.ref_ptr).val)
            IN  [err |-> v.err, mark |-> TRUE]
       ELSE [err |-> "", mark |-> TRUE]
  ELSE LET children == IF node.class # 0
                       THEN Query_children(S, node.number).val ELSE <<>>
           bad == {k \in 1..Len(children) :
                     hoverHandler(S, children[k]).err # ""}
           own == IF node.begin_src # -1
                  THEN Query_filename(S, node.begin_src).err ELSE ""
       IN  [err |-> IF bad # {}
                    THEN hoverHandler(S, children[CHOOSE k \in bad :
                                            \A j \in bad : k <= j]).err
                    ELSE own,
            mark |-> TRUE]

(***************************************************************************)
(* The awaited calls.  Each operator takes the snapshot S the call was     *)
(* made against and the context v, and yields the context at the next      *)
(* await.                                                                   *)
(***************************************************************************)
\* getDocument as it would be without its cache test.
getDocumentHit_never(docs, key) == FALSE

\* getDocument's cache test: documents.get(key) found a document.
getDocumentHit(docs, key) == docs[key]

\* positionHandler: the position of the token lookup (loc || pos).
TokenLookupPos(v) == IF v.loc # NoPos THEN v.loc ELSE v.pos

\* tokenHandler: the position of the fallback lookup query.decl.
DeclLookupPos(v) == v.pos

\* getUriInfo after query.src, then positionHandler up to query.loc.
AfterSrc(S, v) ==
  LET res == Query_src(S, v.file)
  IN  IF res.err # "" THEN Failed(v, res.err)
      ELSE [v EXCEPT !.src = res.val,
                     !.pos = getTokenHead(TextOf(v.file), v.position),
                     !.pc = "loc"]

AfterLoc(S, v) ==
  [v EXCEPT !.loc = Query_loc(S, v.src, v.pos).val, !.pc = "token"]

\* positionHandler's end and tokenHandler's branch.
AfterTokenLookup(S, v) ==
  tokenHandler([v EXCEPT !.token = Query_token(S, v.src, TokenLookupPos(v)).val])

AfterNode(S, v) ==
  AfterToken([v EXCEPT !.node = Query_node(S, v.token.decl).val])

\* Query.decl after its db.get: v.decl holds the row while its ref_ptr is
\* looked up.
AfterDeclRow(S, v) ==
  LET n == Query_declRow(S, v.src, DeclLookupPos(v)).val
  IN  IF n.ref_ptr # NoPtr THEN [v EXCEPT !.decl = n, !.pc = "declref"]
      ELSE AfterToken([v EXCEPT !.node = IF EndsWithDecl(n.kind) THEN n
                                         ELSE NoNode])

AfterDeclRef(S, v) ==
  LET n == Query_nodeByPtr(S, v.decl.ref_ptr).val
  IN  AfterToken([v EXCEPT !.decl = NoNode,
                           !.node = IF EndsWithDecl(n.kind) THEN n ELSE NoNode])

\* hoverHandler and markHandler.
AfterHover(S, v) ==
  LET h == hoverHandler(S, v.node)
  IN  IF h.err # "" THEN Failed(v, h.err)
      ELSE Respond([v EXCEPT !.mark = h.mark], ~h.mark, <<>>)

\* getDefinition after query.node(node.ref_ptr).
AfterDefRef(S, v) ==
  getDefinition([v EXCEPT !.decl = Query_nodeByPtr(S, v.node.ref_ptr).val])

\* getDefinition as it would be if it returned at the first query.next
\* instead of looping: the declaration the walk started from is kept.
AfterNext_first(S, v) == AfterDefinition(v)

\* getDefinition after query.next(decl.ptr).
AfterNext(S, v) ==
  LET next == Query_next(S, v.decl.ptr).val
  IN  IF next = NoNode THEN AfterDefinition(v) ELSE [v EXCEPT !.decl = next]

\* getDeclarations as it would be with unshift in place of push: the list
\* after the definition comes out oldest-first.
AfterPrev_unshift(S, v) ==
  LET d == Query_nodeByPtr(S, v.decl.prev).val
  IN  getDeclaration([v EXCEPT !.decl = d,
                               !.link = IF d # NoNode
                                        THEN <<@[1], d>> \o Tail(@) ELSE @])

\* getDeclaration after query.node(decl.prev), and getDeclarations' push.
AfterPrev(S, v) ==
  LET d == Query_nodeByPtr(S, v.decl.prev).val
  IN  getDeclaration([v EXCEPT !.decl = d,
                               !.link = IF d # NoNode THEN Append(@, d) ELSE @])

\* referencesHandler as it would be if it ignored includeDeclaration.
AfterRefs_push(S, v) ==
  LET refs == Query_refs(S, [k \in 1..Len(v.link) |-> v.link[k].ptr]).val
  IN  linkHandler([v EXCEPT !.link = @ \o refs])

\* referencesHandler after query.refs.
AfterRefs(S, v) ==
  LET refs == Query_refs(S, [k \in 1..Len(v.link) |-> v.link[k].ptr]).val
  IN  linkHandler([v EXCEPT !.link = IF v.incl THEN @ \o refs ELSE refs])

\* getUri after query.filename, then getLink's getDocument.
AfterFilename(S, v, docs) ==
  LET node == v.link[v.i]
      res  == Query_filename(S, node.begin_src)
  IN  IF res.err # "" THEN Failed(v, res.err)
      ELSE IF res.val = "" \/ StartsWithLt(res.val) THEN LinkLoop(v, v.i + 1)
      ELSE IF getDocumentHit(docs, res.val)
      THEN LinkLoop([v EXCEPT !.out = Append(@, LinkOf(res.val, node))], v.i + 1)
      ELSE [v EXCEPT !.pc = "linkread", !.uri = res.val]

(***************************************************************************)
(* Actions.                                                                *)
(***************************************************************************)
Inputs(files, kinds) ==
  UNION {[kind : {k}, incl : IF k = "references" THEN BOOLEAN ELSE {FALSE},
          file : {f},
          position : {Pos(l, c) : l \in 0..world.L, c \in 0..7}] :
         k \in kinds, f \in files}

\* A position of the text t (a character of a line, or the line's end).
IsPosition(t, p) ==
  /\ p.line < Len(LineOffsets(t))
  /\ PositionAt(t, OffsetAt(t, p)) = p

\* The awaited calls that are store calls, by the pc that awaits them.
StorePcs ==
  {"src", "loc", "token", "node", "decl", "declref", "hover", "defref",
   "next", "prev", "refs", "linkfile"}

\* The context w reaches its next await: a store call is issued on the
\* connection that is active now (this.db is read when the call is made).
Issue(w) == [w EXCEPT !.hc = IF w.pc \in StorePcs THEN db ELSE 0]

\* A request arrives: the handler runs getUriInfo up to its first await.
Start(r, inp) ==
  /\ req[r].pc = "idle"
  /\ IsPosition(TextOf(inp.file), inp.position)
  /\ req' = [req EXCEPT ![r] =
       Issue([Idle EXCEPT !.kind = inp.kind, !.incl = inp.incl,
                          !.file = inp.file, !.position = inp.position,
                          !.h0 = db,
                          !.pc = IF getDocumentHit(documents, inp.file)
                                 THEN "src" ELSE "read"])]
  /\ UNCHANGED <<world, tu, db, allDatabases, documents, docWrites>>

\* getDocument after the file was read: documents.set(key, document).
ReadDocument(r) ==
  /\ req[r].pc = "read"
  /\ documents' = [documents EXCEPT ![req[r].file] = TRUE]
  /\ docWrites' = [docWrites EXCEPT ![req[r].file] = @ + 1]
  /\ req' = [req EXCEPT ![r] = Issue([@ EXCEPT !.pc = "src"])]
  /\ UNCHANGED <<world, tu, db, allDatabases>>

\* getLink's getDocument after the file was read.
ReadLinkDocument(r) ==
  /\ req[r].pc = "linkread"
  /\ documents' = [documents EXCEPT ![req[r].uri] = TRUE]
  /\ docWrites' = [docWrites EXCEPT ![req[r].uri] = @ + 1]
  /\ req' = [req EXCEPT ![r] =
       Issue(LinkLoop([@ EXCEPT !.out = Append(@, LinkOf(req[r].uri,
                                                         req[r].link[req[r].i]))],
                      req[r].i + 1))]
  /\ UNCHANGED <<world, tu, db, allDatabases>>

\* The store call awaited by the context v completes.  It was made on the
\* connection v.hc and rejected with a TypeError when there was none
\* (this.db undefined).  v.calls counts the store calls the request has
\* completed (history); w is the context the code after the call reaches.
StoreCall(v, w) == IF v.hc = 0 THEN Failed(v, "TypeError") ELSE Issue(w)

\* The snapshot the call awaited by v was made against.
CallSnapshot(v) == SnapshotOf(v.hc)

\* The context v with its awaited store call counted.
Called(v) == [v EXCEPT !.calls = @ + 1]

shared == <<world, tu, db, allDatabases, documents, docWrites>>

AwaitSrc(r) ==
  /\ req[r].pc = "src"
  /\ req' = [req EXCEPT ![r] = StoreCall(@, AfterSrc(CallSnapshot(@), Called(@)))]
  /\ UNCHANGED shared

AwaitLoc(r) ==
  /\ req[r].pc = "loc"
  /\ req' = [req EXCEPT ![r] = StoreCall(@, AfterLoc(CallSnapshot(@), Called(@)))]
  /\ UNCHANGED shared

AwaitToken(r) ==
  /\ req[r].pc = "token"
  /\ req' = [req EXCEPT ![r] = StoreCall(@, AfterTokenLookup(CallSnapshot(@), Called(@)))]
  /\ UNCHANGED shared

AwaitNode(r) ==
  /\ req[r].pc = "node"
  /\ req' = [req EXCEPT ![r] = StoreCall(@, AfterNode(CallSnapshot(@), Called(@)))]
  /\ UNCHANGED shared

AwaitDeclRow(r) ==
  /\ req[r].pc = "decl"
  /\ req' = [req EXCEPT ![r] = StoreCall(@, AfterDeclRow(CallSnapshot(@), Called(@)))]
  /\ UNCHANGED shared

AwaitDeclRef(r) ==
  /\ req[r].pc = "declref"
  /\ req' = [req EXCEPT ![r] = StoreCall(@, AfterDeclRef(CallSnapshot(@), Called(@)))]
  /\ UNCHANGED shared

AwaitHover(r) ==
  /\ req[r].pc = "hover"
  /\ req' = [req EXCEPT ![r] = StoreCall(@, AfterHover(CallSnapshot(@), Called(@)))]
  /\ UNCHANGED shared

AwaitDefRef(r) ==
  /\ req[r].pc = "defref"
  /\ req' = [req EXCEPT ![r] = StoreCall(@, AfterDefRef(CallSnapshot(@), Called(@)))]
  /\ UNCHANGED shared

AwaitNext(r) ==
  /\ req[r].pc = "next"
  /\ req' = [req EXCEPT ![r] = StoreCall(@, AfterNext(CallSnapshot(@), Called(@)))]
  /\ UNCHANGED shared

AwaitPrev(r) ==
  /\ req[r].pc = "prev"
  /\ req' = [req EXCEPT ![r] = StoreCall(@, AfterPrev(CallSnapshot(@), Called(@)))]
  /\ UNCHANGED shared

AwaitRefs(r) ==
  /\ req[r].pc = "refs"
  /\ req' = [req EXCEPT ![r] = StoreCall(@, AfterRefs(CallSnapshot(@), Called(@)))]
  /\ UNCHANGED shared

AwaitFilename(r) ==
  /\ req[r].pc = "linkfile"
  /\ req' = [req EXCEPT ![r] =
       StoreCall(@, AfterFilename(CallSnapshot(@), Called(@), documents))]
  /\ UNCHANGED shared

\* A store failure as it would be if a handler's catch dropped the cached
\* documents.
StoreFailure_reset(r) ==
  /\ req[r].pc \in StorePcs
  /\ req' = [req EXCEPT ![r] = Failed(@, "StoreFailure")]
  /\ documents' = [f \in Files |-> FALSE]
  /\ UNCHANGED <<world, tu, db, allDatabases, docWrites>>

\* The store itself errors on the awaited call (I/O failure): the promise
\* rejects and the request ends in failure.
StoreFailure(r) ==
  /\ req[r].pc \in StorePcs
  /\ req' = [req EXCEPT ![r] = Failed(@, "StoreFailure")]
  /\ UNCHANGED shared

\* set tu as it would be without the map of connections: a connection is
\* opened whenever the path changes.
SetTu_uncached(path) ==
  /\ IF path # tu
     THEN /\ db' = Handle(path)
          /\ tu' = path
          /\ UNCHANGED allDatabases
     ELSE UNCHANGED <<tu, db, allDatabases>>
  /\ UNCHANGED <<world, documents, docWrites, req>>

\* query.tu = path (onInitialize with a translationUnit option, or
\* onDidChangeConfiguration with languageServerCC.tu).
SetTu(path) ==
  /\ IF path # tu
     THEN /\ IF allDatabases[path] = 0
             THEN /\ allDatabases' = [allDatabases EXCEPT ![path] = Handle(path)]
                  /\ db' = Handle(path)
             ELSE /\ db' = allDatabases[path]
                  /\ UNCHANGED allDatabases
          /\ tu' = path
     ELSE UNCHANGED <<tu, db, allDatabases>>
  /\ UNCHANGED <<world, documents, docWrites, req>>

(***************************************************************************)
(* Spec: the server with MaxReq requests in flight, two translation units  *)
(* built from the same sources, store failures and configuration changes.  *)
(***************************************************************************)
ServerWorld ==
  [L |-> 2,
   tus |-> [p \in Paths |->
     IF p = "a.o"
     THEN [refTo |-> 1, firstSrc |-> 2, tokAtM |-> FALSE, member |-> FALSE,
           at |-> "macro"]
     ELSE [refTo |-> 1, firstSrc |-> 2, tokAtM |-> TRUE, member |-> FALSE,
           at |-> "macro"]]]

ServerInputs ==
  {[kind |-> "references", incl |-> TRUE, file |-> FileA, position |-> Pos(2, 1)],
   [kind |-> "hover", incl |-> FALSE, file |-> FileA, position |-> Pos(2, 3)]}

InitServer(w) ==
  /\ world = w
  /\ documents = [f \in Files |-> FALSE]
  /\ docWrites = [f \in Files |-> 0]
  /\ req = [r \in Requests |-> Idle]

Init ==
  /\ InitServer(ServerWorld)
  /\ tu = ""
  /\ db = 0
  /\ allDatabases = [p \in Paths |-> 0]

Next ==
  \/ \E r \in Requests, inp \in ServerInputs : Start(r, inp)
  \/ \E r \in Requests : ReadDocument(r)
  \/ \E r \in Requests : AwaitSrc(r)
  \/ \E r \in Requests : AwaitLoc(r)
  \/ \E r \in Requests : AwaitToken(r)
  \/ \E r \in Requests : AwaitNode(r)
  \/ \E r \in Requests : AwaitDeclRow(r)
  \/ \E r \in Requests : AwaitDeclRef(r)
  \/ \E r \in Requests : AwaitHover(r)
  \/ \E r \in Requests : AwaitDefRef(r)
  \/ \E r \in Requests : AwaitNext(r)
  \/ \E r \in Requests : AwaitPrev(r)
  \/ \E r \in Requests : AwaitRefs(r)
  \/ \E r \in Requests : AwaitFilename(r)
  \/ \E r \in Requests : ReadLinkDocument(r)
  \/ \E r \in Requests : StoreFailure(r)
  \/ \E p \in Paths : SetTu(p)

Spec == Init /\ [][Next]_vars

(***************************************************************************)
(* PipelineSpec: one request, from its arrival at a freshly initialized    *)
(* server to its response, against every generated snapshot; the store     *)
(* does not fail and the translation unit is not switched.                 *)
(***************************************************************************)
Worlds ==
  UNION {[L : {n}, tus : [Paths -> TuConfigs(n)]] : n \in 1..MaxChain}

PipelineInit ==
  /\ \E w \in Worlds :
       /\ w.tus["a.o"] = w.tus["b.o"]
       /\ ~w.tus["a.o"].member
       /\ InitServer(w)
  /\ tu = "a.o"
  /\ db = 1
  /\ allDatabases = [p \in Paths |-> IF p = "a.o" THEN Handle(p) ELSE 0]

PipelineNext ==
  \/ \E inp \in Inputs(Files, Kinds) : Start(1, inp)
  \/ ReadDocument(1)
  \/ AwaitSrc(1)
  \/ AwaitLoc(1)
  \/ AwaitToken(1)
  \/ AwaitNode(1)
  \/ AwaitDeclRow(1)
  \/ AwaitDeclRef(1)
  \/ AwaitHover(1)
  \/ AwaitDefRef(1)
  \/ AwaitNext(1)
  \/ AwaitPrev(1)
  \/ AwaitRefs(1)
  \/ AwaitFilename(1)
  \/ ReadLinkDocument(1)

PipelineSpec == PipelineInit /\ [][PipelineNext]_vars

(***************************************************************************)
(* Redeclaration chains, stated on the rows of a snapshot.                 *)
(***************************************************************************)
AstSet(S) == {S.ast[k] : k \in 1..Len(S.ast)}

\* The node with the ptr identity ptr, NoNode when there is none.
NodeAt(S, ptr) ==
  IF \E x \in AstSet(S) : x.ptr = ptr
  THEN CHOOSE x \in AstSet(S) : x.ptr = ptr
  ELSE NoNode

\* The nodes whose prev is n (the redeclarations that follow n).
Successors(S, n) == {x \in AstSet(S) : x.prev = n.ptr}

\* The node n's prev names.
Predecessors(S, n) == {x \in AstSet(S) : n.prev # NoPtr /\ x.ptr = n.prev}

\* The nodes reached from the nodes ns by k or fewer moves to a successor.
RECURSIVE LaterWithin(_, _, _)
LaterWithin(S, ns, k) ==
  IF k = 0 THEN ns
  ELSE LaterWithin(S, ns \cup UNION {Successors(S, n) : n \in ns}, k - 1)

\* The nodes reached from the nodes ns by k or fewer moves along prev.
RECURSIVE PriorWithin(_, _, _)
PriorWithin(S, ns, k) ==
  IF k = 0 THEN ns
  ELSE PriorWithin(S, ns \cup UNION {Predecessors(S, n) : n \in ns}, k - 1)

\* The last node of n's redeclaration chain.
ChainLast(S, n) ==
  CHOOSE x \in LaterWithin(S, {n}, Len(S.ast)) : Successors(S, x) = {}

\* The nodes reachable from n by following prev one or more times.
PriorDeclarations(S, n) ==
  PriorWithin(S, Predecessors(S, n), Len(S.ast))

\* The snapshot of the active connection.
ActiveSnapshot == SnapshotOf(db)

\* getDefinition's decl: the node v.node refers to, or v.node itself.
StartDecl(S, v) ==
  IF v.node.ref_ptr # NoPtr THEN NodeAt(S, v.node.ref_ptr) ELSE v.node

\* The context v is past definitionHandler and v.link[1] is what
\* getDefinition returned.
DefinitionKnown(v) ==
  /\ v.linked
  /\ \/ v.pc \in {"prev", "refs"}
     \/ v.kind \in {"definition", "declaration"} /\ v.pc \in {"linkfile", "linkread"}

\* The context v is past declarationHandler and before referencesHandler's
\* store call: v.link is the definition followed by getDeclarations' list.
DeclarationsKnown(v) ==
  /\ v.linked
  /\ v.link # <<>>
  /\ \/ v.kind = "references" /\ v.pc = "refs"
     \/ v.kind = "declaration" /\ v.pc \in {"linkfile", "linkread"}

Range(s) == {s[k] : k \in 1..Len(s)}

NoDuplicates(s) == \A j, k \in 1..Len(s) : s[j] = s[k] => j = k

\* C1: getDefinition(node), with decl the node that node.ref_ptr names or
\* node itself, returns for a FunctionDecl the last node of decl's
\* redeclaration chain: it is never null, and it is the declaration the
\* walk started from only when that one is the last.
C1_DefinitionIsChainLast ==
  \A r \in Requests :
    LET v == req[r]
        d == StartDecl(ActiveSnapshot, v)
    IN  (DefinitionKnown(v) /\ d.kind = "FunctionDecl")
          => /\ v.link # <<>>
             /\ v.link[1] = ChainLast(ActiveSnapshot, d)
             /\ Successors(ActiveSnapshot, v.link[1]) = {}

\* C1's case: a goto-definition on a declaration that is not the last of
\* its chain has its definition, which is another node.
C1_Witness ==
  \E r \in Requests :
    LET v == req[r]
    IN  /\ v.kind = "definition" /\ v.pc = "linkfile"
        /\ v.node.kind = "FunctionDecl"
        /\ v.link # <<>> /\ v.link[1] # v.node

\* C2: getDeclarations(definition) returns exactly the nodes reachable from
\* definition by following prev one or more times; the definition itself is
\* not among them.
C2_DeclarationsArePriorNodes ==
  \A r \in Requests :
    LET v == req[r]
    IN  DeclarationsKnown(v)
          => /\ Range(Tail(v.link)) = PriorDeclarations(ActiveSnapshot, v.link[1])
             /\ v.link[1] \notin Range(Tail(v.link))

\* C2's case: find-references has collected two prior declarations.
C2_Witness ==
  \E r \in Requests :
    LET v == req[r]
    IN  DeclarationsKnown(v) /\ v.kind = "references" /\ Len(v.link) >= 3

\* C3 as stated: for a declaration d of a function, the list
\* getDeclarations(getDefinition(d)) has no duplicates and is ordered
\* oldest-first (the declaration without prev first, the one just before
\* the definition last).
C3_OldestFirst ==
  \A r \in Requests :
    LET v  == req[r]
        ds == Tail(v.link)
    IN  (DeclarationsKnown(v) /\ v.node.kind = "FunctionDecl")
          => /\ NoDuplicates(ds)
             /\ ds # <<>> => /\ ds[1].prev = NoPtr
                             /\ ds[Len(ds)].ptr = v.link[1].prev

\* C3, amended: the list has no duplicates and is ordered newest-first
\* (the declaration just before the definition first, each next entry the
\* prev of the one before it, the declaration without prev last).
C3_NewestFirst ==
  \A r \in Requests :
    LET v == req[r]
    IN  (DeclarationsKnown(v) /\ v.node.kind = "FunctionDecl")
          => /\ NoDuplicates(Tail(v.link))
             /\ \A k \in 2..Len(v.link) : v.link[k].ptr = v.link[k - 1].prev
             /\ v.link[Len(v.link)].prev = NoPtr

\* C3's case: a goto-declaration on the oldest of three declarations has
\* the definition and its two prior declarations.
C3_Witness ==
  \E r \in Requests :
    LET v == req[r]
    IN  /\ DeclarationsKnown(v) /\ v.kind = "declaration"
        /\ v.node.kind = "FunctionDecl" /\ v.node.prev = NoPtr
        /\ Len(v.link) = 3

\* A request is in flight: it has started and has not ended.
InFlight(v) == v.pc \notin {"idle", "done", "failed"}

\* The awaited calls: the pcs at which a request in flight is suspended.
ContinuePcs == StorePcs \cup {"read", "linkread"}

\* The store calls a request can need on the snapshot S: one each for src,
\* loc, token, node or decl, decl's ref_ptr, getDefinition's ref_ptr, refs
\* or hover; one per node for each walk and for the links.
MaxCalls(S) == 7 + 3 * Len(S.ast)

\* C4: on snapshots whose prev links form acyclic chains, a goto-definition,
\* goto-declaration or find-references request runs to completion or
\* failure: while it is in flight it awaits a call that completes, and it
\* completes at most MaxCalls store calls, so the forward walk of
\* getDefinition and the backward walk of getDeclarations end; and when
\* getDefinition's start node resolves to a node, getDefinition ends on a
\* node of the snapshot.
C4_WalksEnd ==
  \A r \in Requests :
    LET v == req[r]
    IN  v.kind \in {"definition", "declaration", "references"}
          => /\ InFlight(v) => v.pc \in ContinuePcs
             /\ InFlight(v) => v.calls <= MaxCalls(ActiveSnapshot)
             /\ (DefinitionKnown(v) /\ StartDecl(ActiveSnapshot, v) # NoNode)
                  => /\ v.link # <<>>
                     /\ v.link[1] \in AstSet(ActiveSnapshot)

\* C4's case: find-references is in the backward walk, the forward walk
\* over a chain of three declarations behind it.
C4_Witness ==
  \E r \in Requests :
    LET v == req[r]
    IN  /\ v.kind = "references" /\ v.pc = "prev"
        /\ v.node.kind = "FunctionDecl" /\ v.node.prev = NoPtr
        /\ Len(v.link) = 2 /\ v.link[1].number = MaxChain

(***************************************************************************)
(* Concurrency: the active connection and the document cache.              *)
(***************************************************************************)
\* C5 as stated: every store call of a request in flight is made on the
\* connection that was active when the request started, also after the
\* translation unit was switched.
C5_CapturedHandle ==
  \A r \in Requests :
    (req[r].pc \in StorePcs /\ req[r].h0 # 0) => req[r].hc = req[r].h0

\* The uri whose file the request v is reading.
PendingUri(v) ==
  IF v.pc = "read" THEN v.file ELSE IF v.pc = "linkread" THEN v.uri ELSE ""

\* C6 as stated: the document cache is populated at most once per URI (no
\* write of an entry after its first write), and entries are never removed.
C6_PopulatedOnce ==
  \A f \in Files :
    /\ docWrites[f] <= 1
    /\ docWrites[f] > 0 => documents[f]

\* C6, amended: entries are never removed, and an entry is written again
\* after its first write only by requests whose own lookup missed before
\* that write: a request starts reading a file only when the entry is
\* missing, so with MaxReq requests an entry is written at most MaxReq
\* times, once per request.
C6_PopulatedOncePerMiss ==
  /\ [](\A f \in Files :
          /\ docWrites[f] > 0 => documents[f]
          /\ docWrites[f] + Cardinality({r \in Requests :
                                          PendingUri(req[r]) = f}) <= MaxReq)
  /\ [][\A r \in Requests :
          (PendingUri(req'[r]) # "" /\ PendingUri(req'[r]) # PendingUri(req[r]))
            => ~documents[PendingUri(req'[r])]]_vars

\* C6's case: two concurrent first accesses have both written the entry.
C6_Witness == docWrites[FileA] = 2 /\ documents[FileA]

\* C7: a store failure ends only the request whose call failed: the step
\* leaves the document cache, the active translation unit and connection
\* and every other request as they were, and the others go on to complete.
C7_FailureIsLocal ==
  [][\A r \in Requests :
       (/\ req[r].pc \in StorePcs
        /\ req'[r].pc = "failed"
        /\ req'[r].err = "StoreFailure")
         => /\ documents' = documents
            /\ docWrites' = docWrites
            /\ tu' = tu /\ db' = db /\ allDatabases' = allDatabases
            /\ \A q \in Requests \ {r} : req'[q] = req[q]]_vars

\* C7's case: one request has failed on a store failure and another has
\* completed with links, the cached document still in place.
C7_Witness ==
  \E r, q \in Requests :
    /\ req[r].pc = "failed" /\ req[r].err = "StoreFailure"
    /\ req[q].pc = "done" /\ ~req[q].null /\ req[q].out # <<>>
    /\ documents[FileA]
    /\ db # 0

(***************************************************************************)
(* Resolution at the cursor, stated on the rows of a snapshot.             *)
(***************************************************************************)
\* The number of file's src row, 0 when there is none.
SrcOf(S, file) ==
  IF \E x \in Range(S.src) : x.filename = file
  THEN (CHOOSE x \in Range(S.src) : x.filename = file).number
  ELSE 0

\* The identifier head of the request's cursor.
HeadOf(v) == getTokenHead(TextOf(v.file), v.position)

\* Row and column (1-based) of the editor position pos are at or after
\* (row, col).
AtOrAfter(pos, row, col) ==
  pos.line + 1 > row \/ (pos.line + 1 = row /\ pos.character + 1 >= col)

\* The spans with the given semantics whose [begin, end) contains pos.
SpansAt(S, src, pos, semantics) ==
  {x \in Range(S.loc) :
     /\ x.semantics = semantics
     /\ x.begin_src = src /\ x.end_src = src
     /\ AtOrAfter(pos, x.begin_row, x.begin_col)
     /\ ~AtOrAfter(pos, x.end_row, x.end_col)}

BeginOf(x) == Pos(x.begin_row - 1, x.begin_col - 1)

\* The position of the token lookup for the head pos.
Normalized(S, src, pos) ==
  LET spans == SpansAt(S, src, pos, SEMANTIC_EXPANSION)
  IN  IF spans = {} THEN pos ELSE BeginOf(CHOOSE x \in spans : TRUE)

TokensAt(S, src, pos) ==
  {t \in Range(S.tok) :
     t.src = src /\ t.begin_row = pos.line + 1 /\ t.begin_col = pos.character + 1}

\* The declarations the ast rows beginning at pos resolve to.
DeclsAt(S, src, pos) ==
  {d \in {IF x.ref_ptr # NoPtr THEN NodeAt(S, x.ref_ptr) ELSE x :
            x \in {y \in AstSet(S) : /\ y.begin_src = src
                                      /\ y.begin_row = pos.line + 1
                                      /\ y.begin_col = pos.character + 1}} :
     EndsWithDecl(d.kind)}

\* Neither the token lookup nor the fallback lookup of a request on file
\* at position finds anything.
Unresolved(S, v) ==
  LET src == SrcOf(S, v.file)
  IN  /\ src # 0
      /\ TokensAt(S, src, Normalized(S, src, HeadOf(v))) = {}
      /\ DeclsAt(S, src, HeadOf(v)) = {}

\* C8: when the request's file has a src row and neither a token nor a
\* fallback declaration resolves at the cursor, the request (hover,
\* definition, declaration, references, prepare) does not fail, makes no
\* call past the lookups, and its response is null.
C8_UnresolvedIsNull ==
  \A r \in Requests :
    LET v == req[r]
    IN  (v.kind \in Kinds /\ Unresolved(ActiveSnapshot, v))
          => /\ v.pc # "failed"
             /\ InFlight(v) => v.pc \in {"read", "src", "loc", "token", "decl",
                                          "declref"}
             /\ v.pc = "done" => v.null /\ v.out = <<>>

\* C8's case: a goto-declaration on an identifier that has neither a token
\* nor a declaration has been answered.
C8_Witness ==
  \E r \in Requests :
    LET v == req[r]
    IN  /\ v.kind = "declaration" /\ v.pc = "done" /\ v.null
        /\ Unresolved(ActiveSnapshot, v)
        /\ HeadOf(v) # v.position

\* C9: src(file) and filename(number) reject with NotFound when no src row
\* matches, and the rejection fails the request; the node lookups by
\* number and by ptr, children and range resolve to an absent or empty
\* result when nothing matches, and the request goes on.
C9_NotFoundOrAbsent ==
  /\ [](LET S == ActiveSnapshot
        IN  /\ \A f \in Files :
                 SrcOf(S, f) = 0 => Query_src(S, f) = Reject("NotFound")
            /\ \A k \in -1..(Len(S.src) + 1) :
                 (\A x \in Range(S.src) : x.number # k)
                   => Query_filename(S, k) = Reject("NotFound")
            /\ \A k \in 0..(Len(S.ast) + 1) :
                 /\ (\A x \in AstSet(S) : x.number # k)
                      => Query_node(S, k) = Resolve(NoNode)
                 /\ NodeAt(S, Ptr(k)) = NoNode
                      => Query_nodeByPtr(S, Ptr(k)) = Resolve(NoNode)
                 /\ (\A x \in AstSet(S) : x.parent_number # k)
                      => Query_children(S, k) = Resolve(<<>>)
                 /\ (\A x \in AstSet(S) : x.number < k)
                      => Query_range(S, k, k + 1) = Resolve(<<>>)
            /\ \A r \in Requests :
                 (req[r].kind \in Kinds /\ SrcOf(S, req[r].file) = 0)
                   => /\ req[r].pc \in {"read", "src", "failed"}
                      /\ req[r].pc = "failed" => req[r].err = "NotFound")
  /\ [][\A r \in Requests :
          LET v == req[r]
              S == ActiveSnapshot
          IN  /\ (/\ v.pc = "linkfile" /\ req'[r] # v
                   /\ \A x \in Range(S.src) : x.number # v.link[v.i].begin_src)
                    => req'[r].pc = "failed" /\ req'[r].err = "NotFound"
              /\ (/\ v.pc = "node" /\ req'[r] # v
                   /\ \A x \in AstSet(S) : x.number # v.token.decl)
                    => req'[r].pc = "done" /\ req'[r].null
              /\ (/\ v.pc = "defref" /\ req'[r] # v
                   /\ NodeAt(S, v.node.ref_ptr) = NoNode)
                    => req'[r].pc # "failed"]_vars

\* C9's case: a request on a file that has a src row has failed with
\* NotFound: the rejection came from filename(number).
C9_Witness ==
  \E r \in Requests :
    /\ req[r].pc = "failed" /\ req[r].err = "NotFound"
    /\ SrcOf(ActiveSnapshot, req[r].file) # 0

\* Query.decl as a whole: the first row at pos, through its ref_ptr, when
\* its kind ends with Decl.
Query_decl(S, src, pos) ==
  LET n == Query_declRow(S, src, pos).val
      m == IF n.ref_ptr # NoPtr THEN Query_nodeByPtr(S, n.ref_ptr).val ELSE n
  IN  Resolve(IF EndsWithDecl(m.kind) THEN m ELSE NoNode)

\* The node a request resolves when its cursor is at pos, the begin of an
\* identifier and of a span.
ResolveAt(S, src, pos) ==
  LET token == Query_token(S, src, pos).val
  IN  IF token # NoToken THEN Query_node(S, token.decl).val
      ELSE Query_decl(S, src, pos).val

\* The pcs at which the context holds the resolved node.
NodeKnownPcs ==
  {"hover", "defref", "next", "prev", "refs", "linkfile", "linkread"}

\* C10 as stated: a request whose identifier head lies inside [begin, end)
\* of an Expansion span of its file resolves exactly as if the cursor were
\* at the span's begin: it holds the node that resolves there, and its
\* response is null only if nothing resolves there.
C10_ResolvesAsAtBegin ==
  \A r \in Requests :
    LET v     == req[r]
        S     == ActiveSnapshot
        src   == SrcOf(S, v.file)
        spans == SpansAt(S, src, HeadOf(v), SEMANTIC_EXPANSION)
        n     == ResolveAt(S, src, BeginOf(CHOOSE x \in spans : TRUE))
    IN  (/\ v.kind \in {"hover", "definition", "declaration", "references"}
         /\ src # 0
         /\ spans # {})
          => /\ v.pc \in NodeKnownPcs => v.node = n
             /\ v.pc = "done" => (v.null <=> n = NoNode)

(***************************************************************************)
(* RefsSpec: one request against the snapshots in which ff is a function   *)
(* and those in which it is a record member (its oldest declaration in     *)
(* /h.h).                                                                   *)
(***************************************************************************)
RefsInit ==
  /\ \E w \in Worlds :
       /\ w.tus["a.o"] = w.tus["b.o"]
       /\ w.tus["a.o"].firstSrc = 2
       /\ InitServer(w)
  /\ tu = "a.o"
  /\ db = 1
  /\ allDatabases = [p \in Paths |-> IF p = "a.o" THEN Handle(p) ELSE 0]

RefsSpec == RefsInit /\ [][PipelineNext]_vars

\* The definition of the symbol declared by d, as getDefinition finds it.
DefinitionOf(S, d) == IF d.kind = "FunctionDecl" THEN ChainLast(S, d) ELSE d

\* The declarations of the symbol declared by d: its definition and the
\* prior declarations.
DeclarationsOf(S, d) ==
  {DefinitionOf(S, d)} \cup PriorDeclarations(S, DefinitionOf(S, d))

\* The referencing expressions of the symbol declared by d: MemberExpr
\* nodes for a record member, DeclRefExpr nodes otherwise.
ReferencingExpressions(S, d) ==
  {x \in AstSet(S) :
     /\ x.kind = IF d.kind = "FieldDecl" THEN "MemberExpr" ELSE "DeclRefExpr"
     /\ \E n \in DeclarationsOf(S, d) : x.ref_ptr = n.ptr}

\* The context v of a find-references is past referencesHandler: v.link is
\* the list linkHandler turns into locations.
RefsKnown(v) ==
  v.kind = "references" /\ v.linked /\ v.pc \in {"linkfile", "linkread"}

\* C11 as stated: find-references on a resolved symbol returns every
\* referencing expression of its declarations: DeclRefExpr nodes for a
\* variable or function, MemberExpr nodes for a record member.
C11_ReferencesOfSymbol ==
  \A r \in Requests :
    LET v == req[r]
        d == StartDecl(ActiveSnapshot, v)
    IN  (RefsKnown(v) /\ d # NoNode)
          => /\ ReferencingExpressions(ActiveSnapshot, d) \subseteq Range(v.link)
             /\ ~v.incl
                  => Range(v.link) = ReferencingExpressions(ActiveSnapshot, d)

\* C12: in find-references with includeDeclaration set the result is the
\* definition, its prior declarations and the reference nodes; with it
\* clear the result is the reference nodes and holds no declaration.
C12_IncludeDeclaration ==
  \A r \in Requests :
    LET v     == req[r]
        d     == StartDecl(ActiveSnapshot, v)
        decls == DeclarationsOf(ActiveSnapshot, d)
        refs  == ReferencingExpressions(ActiveSnapshot, d)
    IN  (RefsKnown(v) /\ d # NoNode)
          => IF v.incl THEN Range(v.link) = decls \cup refs
             ELSE Range(v.link) = refs /\ Range(v.link) \cap decls = {}

\* C12's case: a find-references without includeDeclaration on a function
\* with two declarations and a reference holds the reference.
C12_Witness ==
  \E r \in Requests :
    LET v == req[r]
    IN  /\ RefsKnown(v) /\ ~v.incl
        /\ v.link # <<>>
        /\ Cardinality(DeclarationsOf(ActiveSnapshot,
                                       StartDecl(ActiveSnapshot, v))) >= 2

(***************************************************************************)
(* The call hierarchy.  A snapshot with two top-level functions that refer *)
(* to ff, a variable initialised with ff and a macro body:                 *)
(*   /a.c  row 1  "ff;"        1  FunctionDecl ff                          *)
(*         row 2  "ff;"        2  FunctionDecl ff, prev 1                  *)
(*         row 3  "foo ff ff"  3  FunctionDecl foo   [3, 5]                *)
(*                             4  DeclRefExpr ff  (site 1)                 *)
(*                             5  DeclRefExpr ff  (site 2)                 *)
(*         row 4  "bar ff"     6  FunctionDecl bar   [6, 8]                *)
(*                             7  FunctionDecl in, parent 6  [7, 8]        *)
(*                             8  DeclRefExpr ff, below a CallExpr         *)
(*         row 5  "p ff"       9  VarDecl p          [9, 10]               *)
(*                             10 DeclRefExpr ff, the value of p           *)
(*         row 6  "M ff"       the body of the macro M                     *)
(* The rows are in preorder and every subtree is [number, final_number].   *)
(***************************************************************************)
CallRow(number, parent, final, kind, name, prev, ref, ancestors, row, col, exp) ==
  [number |-> number, parent_number |-> parent, final_number |-> final,
   kind |-> kind, name |-> name, class |-> 0,
   ptr |-> Ptr(number), prev |-> prev, ref_ptr |-> ref,
   ref_kind |-> IF ref = NoPtr THEN "" ELSE "Function",
   ancestors |-> ancestors,
   begin_src |-> 1, begin_row |-> row, begin_col |-> col,
   row |-> row, col |-> col,
   exp_src |-> exp.src, exp_row |-> exp.row, exp_col |-> exp.col]

\* No macro-expansion origin (exp_row is 0).
NoExp == [src |-> 0, row |-> 0, col |-> 0]

NoCallNode == CallRow(0, 0, 0, "", "", NoPtr, NoPtr, <<>>, 0, 0, NoExp)

\* The ancestor chains of a reference to a function: the value of a
\* function (no call), the callee of a call, the callee of a call that is
\* an argument of another call.
AncestorChains ==
  {<<"FunctionDecl", "CompoundStmt", "ImplicitCastExpr">>,
   <<"FunctionDecl", "CompoundStmt", "CallExpr", "ImplicitCastExpr">>,
   <<"FunctionDecl", "CompoundStmt", "CallExpr", "CallExpr",
     "ImplicitCastExpr">>}

\* The origins of a call site: written in place ("none"), or expanded from
\* the macro M with the expansion span in the loc table ("span") or
\* without one ("lost").
Origins == {"none", "span", "lost"}

\* A call site of foo, at column col of row 3.  c.ref is the declaration
\* of ff it refers to (0: one that is not in the snapshot).
SiteRow(number, col, c) ==
  CallRow(number, 3, number, "DeclRefExpr", "ff", NoPtr,
          IF c.ref = 0 THEN Ptr(99) ELSE Ptr(c.ref), c.anc,
          IF c.exp = "none" THEN 3 ELSE 6, IF c.exp = "none" THEN col ELSE 3,
          IF c.exp = "none" THEN NoExp ELSE [src |-> 1, row |-> 3, col |-> col])

SiteSpan(col, c) ==
  IF c.exp = "span" THEN <<LocRow(1, 3, col, 3, col + 2, SEMANTIC_EXPANSION)>>
  ELSE <<>>

CallGraph(g) ==
  [src |-> <<SrcRow(1, FileA), SrcRow(3, Builtin)>>,
   ast |->
     <<CallRow(1, 0, 1, "FunctionDecl", "ff", NoPtr, NoPtr, <<>>, 1, 1, NoExp),
       CallRow(2, 0, 2, "FunctionDecl", "ff", Ptr(1), NoPtr, <<>>, 2, 1, NoExp),
       CallRow(3, 0, 5, "FunctionDecl", "foo", NoPtr, NoPtr, <<>>, 3, 1, NoExp),
       SiteRow(4, 5, g.site1),
       SiteRow(5, 8, g.site2),
       CallRow(6, 0, 8, "FunctionDecl", "bar", NoPtr, NoPtr, <<>>, 4, 1, NoExp),
       CallRow(7, 6, 8, "FunctionDecl", "in", NoPtr, NoPtr,
               <<"FunctionDecl", "CompoundStmt">>, 4, 5, NoExp),
       CallRow(8, 7, 8, "DeclRefExpr", "ff", NoPtr, Ptr(2),
               <<"FunctionDecl", "CompoundStmt", "FunctionDecl", "CompoundStmt",
                 "CallExpr", "ImplicitCastExpr">>, 4, 5, NoExp),
       CallRow(9, 0, 10, "VarDecl", "p", NoPtr, NoPtr, <<>>, 5, 1, NoExp),
       CallRow(10, 9, 10, "DeclRefExpr", "ff", NoPtr, Ptr(2),
               <<"VarDecl", "ImplicitCastExpr">>, 5, 3, NoExp)>>,
   tok |-> <<>>,
   loc |-> SiteSpan(5, g.site1) \o SiteSpan(8, g.site2)]

Sites == [ref : 0..2, anc : AncestorChains, exp : Origins]

\* "ff;\nff;\nfoo ff ff\nbar ff\np ff\nM ff"
CallText ==
  <<102, 102, 59, 10, 102, 102, 59, 10,
    102, 111, 111, 32, 102, 102, 32, 102, 102, 10,
    98, 97, 114, 32, 102, 102, 10, 112, 32, 102, 102, 10, 77, 32, 102, 102>>

\* Query.exp: the loc row that begins at the expansion origin of node.
Query_exp(S, node) ==
  Resolve(First(SelectSeq(S.loc, LAMBDA x :
                  /\ x.begin_src = node.exp_src
                  /\ x.begin_row = node.exp_row
                  /\ x.begin_col = node.exp_col), NoLoc))

\* Query.caller as it would be without the upper end of the subtree.
Query_caller_preceding(S, number) ==
  Resolve(First(SelectSeq(S.ast, LAMBDA x :
                  /\ x.kind = "FunctionDecl"
                  /\ x.parent_number = 0
                  /\ x.number < number), NoCallNode))

Query_caller(S, number) ==
  Resolve(First(SelectSeq(S.ast, LAMBDA x :
                  /\ x.kind = "FunctionDecl"
                  /\ x.parent_number = 0
                  /\ x.number < number
                  /\ number <= x.final_number), NoCallNode))

\* The rows of the join of ast with json_each(ast.ancestors): the row x
\* once for each element of x.ancestors that is 'CallExpr'.
RECURSIVE JoinCallExpr(_, _)
JoinCallExpr(rows, k) ==
  IF k > Len(rows) THEN <<>>
  ELSE [j \in 1..Len(SelectSeq(rows[k].ancestors, LAMBDA a : a = "CallExpr"))
          |-> rows[k]]
       \o JoinCallExpr(rows, k + 1)

\* Query.callees as it would be without the json_each condition.
Query_callees_references(S, definition) ==
  Resolve(SelectSeq(S.ast, LAMBDA x :
            /\ definition.number < x.number
            /\ x.number <= definition.final_number
            /\ x.kind = "DeclRefExpr"
            /\ x.ref_kind = "Function"))

Query_callees(S, definition) ==
  Resolve(JoinCallExpr(SelectSeq(S.ast, LAMBDA x :
                         /\ definition.number < x.number
                         /\ x.number <= definition.final_number
                         /\ x.kind = "DeclRefExpr"
                         /\ x.ref_kind = "Function"), 1))

(***************************************************************************)
(* onIncomingCalls and onOutgoingCalls.  The context of a call-hierarchy   *)
(* request: data is item.data, refs the rows of query.refs or              *)
(* query.callees, group the groups in insertion order (the order of        *)
(* for-in over string keys), from the row of the last query.caller or      *)
(* getDefinition, ranges the fromRanges under construction.                *)
(***************************************************************************)
CallIdle ==
  [pc |-> "idle", kind |-> "", data |-> <<>>, refs |-> <<>>, i |-> 0,
   from |-> NoCallNode, group |-> <<>>, j |-> 0, k |-> 0, uri |-> "",
   ranges |-> <<>>, null |-> FALSE, out |-> <<>>, err |-> ""]

CallRespond(v, null, out) ==
  [CallIdle EXCEPT !.pc = "done", !.kind = v.kind, !.data = v.data,
                   !.null = null, !.out = out]

CallFailed(v, e) ==
  [CallIdle EXCEPT !.pc = "failed", !.kind = v.kind, !.data = v.data,
                   !.err = e]

\* getRanges(node, doc).selectionRange, doc holding the text t.
getRanges(node, t) ==
  LET namePosition ==
        IF node.row > 0 THEN Pos(node.row - 1, node.col - 1)
        ELSE Pos(node.begin_row - 1, node.begin_col - 1)
      nameEndOffset ==
        OffsetAt(t, namePosition) + (IF node.name # "" THEN Len(node.name) ELSE 1)
  IN  [start |-> namePosition, end |-> PositionAt(t, nameEndOffset)]

\* The range built from the loc row of query.exp.
ExpRange(range) ==
  [start |-> Pos(range.begin_row - 1, range.begin_col - 1),
   end |-> Pos(range.end_row - 1, range.end_col - 1)]

\* if (!group[ptr]) group[ptr] = [head]
GroupAdd(group, head) ==
  IF \E n \in 1..Len(group) : group[n].head.ptr = head.ptr THEN group
  ELSE Append(group, [head |-> head, nodes |-> <<>>, ranges |-> <<>>])

GroupIndex(group, ptr) == CHOOSE n \in 1..Len(group) : group[n].head.ptr = ptr

\* The loop over the groups, at group v.j: getLink(head) is awaited.
GroupLoop(v) ==
  IF v.j > Len(v.group) THEN CallRespond(v, FALSE, v.out)
  ELSE [v EXCEPT !.pc = "grouplink"]

\* onIncomingCalls: the loop over refs, at v.i.
CallerLoop(v) ==
  IF v.i > Len(v.refs) THEN GroupLoop([v EXCEPT !.j = 1])
  ELSE [v EXCEPT !.pc = "caller"]

\* onOutgoingCalls: the loop over callees, at v.i.
CalleeLoop(v) ==
  IF v.i > Len(v.refs) THEN GroupLoop([v EXCEPT !.j = 1])
  ELSE [v EXCEPT !.pc = "calldef"]

\* onIncomingCalls: the loop over the nodes of group v.j, at v.k; a node
\* with an expansion origin awaits query.exp, the others give their range
\* at once; after the loop getDeclarations(from) is awaited.
RECURSIVE RangeLoop(_)
RangeLoop(v) ==
  LET nodes == v.group[v.j].nodes
  IN  IF v.k > Len(nodes) THEN [v EXCEPT !.pc = "calldecls"]
      ELSE IF nodes[v.k].exp_row # 0 THEN [v EXCEPT !.pc = "exp"]
      ELSE RangeLoop([v EXCEPT
             !.ranges = Append(@, getRanges(nodes[v.k], CallText)),
             !.k = @ + 1])

onIncomingCalls(v) ==
  IF v.data = <<>> THEN CallRespond(v, TRUE, <<>>)
  ELSE [v EXCEPT !.pc = "callrefs"]

onOutgoingCalls(v) ==
  IF v.data = <<>> THEN CallRespond(v, TRUE, <<>>)
  ELSE [v EXCEPT !.pc = "calluri"]

\* onIncomingCalls after query.refs.
AfterCallRefs(S, v) ==
  CallerLoop([v EXCEPT
    !.refs = Query_refs(S, [n \in 1..Len(v.data) |-> v.data[n].ptr]).val,
    !.i = 1])

\* onIncomingCalls after query.caller.
AfterCaller(S, v) ==
  LET node == v.refs[v.i]
      from == Query_caller(S, node.number).val
      g    == GroupAdd(v.group, from)
      n    == GroupIndex(g, from.ptr)
  IN  IF from.number = 0
      THEN CallerLoop([v EXCEPT !.from = from, !.i = @ + 1])
      ELSE CallerLoop([v EXCEPT
             !.from = from, !.i = @ + 1,
             !.group = [g EXCEPT ![n].nodes = Append(@, node)]])

\* The entry of a group: the item of its head and the fromRanges.
CallEntry(head, uri, data, fromRanges) ==
  [ptr |-> head.ptr, kind |-> getSymbolKind(head), name |-> head.name,
   uri |-> uri, selectionRange |-> getRanges(head, CallText),
   data |-> data, fromRanges |-> fromRanges]

\* The loop over the groups after getLink(head): getUri's query.filename,
\* then getDocument and getRanges.
AfterGroupLink(S, v) ==
  LET g   == v.group[v.j]
      res == Query_filename(S, g.head.begin_src)
  IN  IF res.err # "" THEN CallFailed(v, res.err)
      ELSE IF res.val = "" \/ StartsWithLt(res.val)
      THEN GroupLoop([v EXCEPT !.j = @ + 1])
      ELSE IF getSymbolKind(g.head) = 0 \/ g.head.name = ""
      THEN GroupLoop([v EXCEPT !.j = @ + 1])
      ELSE IF v.kind = "incoming"
      THEN RangeLoop([v EXCEPT !.uri = res.val, !.k = 1, !.ranges = <<>>])
      ELSE GroupLoop([v EXCEPT
             !.out = Append(@, CallEntry(g.head, res.val,
                                         <<g.head.number>>, g.ranges)),
             !.j = @ + 1])

\* if (range) fromRanges.push(...) as it would be with the node's own
\* range pushed whatever the origin.
AfterExp_own(S, v) ==
  IF v.kind = "incoming"
  THEN RangeLoop([v EXCEPT
         !.ranges = Append(@, getRanges(v.group[v.j].nodes[v.k], CallText)),
         !.k = @ + 1])
  ELSE CalleeLoop([v EXCEPT
         !.group[GroupIndex(v.group, v.from.ptr)].ranges =
            Append(@, getRanges(v.refs[v.i], CallText)),
         !.i = @ + 1])

\* After query.exp(node): the range is pushed if there is one.
AfterExp(S, v) ==
  LET node  == IF v.kind = "incoming" THEN v.group[v.j].nodes[v.k]
               ELSE v.refs[v.i]
      range == Query_exp(S, node).val
      push(rs) == IF range # NoLoc THEN Append(rs, ExpRange(range)) ELSE rs
  IN  IF v.kind = "incoming"
      THEN RangeLoop([v EXCEPT !.ranges = push(@), !.k = @ + 1])
      ELSE CalleeLoop([v EXCEPT
             !.group[GroupIndex(v.group, v.from.ptr)].ranges = push(@),
             !.i = @ + 1])

\* getDeclaration: the rows found by following prev from decl.
RECURSIVE PrevWalk(_, _)
PrevWalk(S, decl) ==
  IF decl.number = 0 \/ decl.prev = NoPtr THEN <<>>
  ELSE LET prev == Query_nodeByPtr(S, decl.prev).val
       IN  (IF prev.number # 0 THEN <<prev>> ELSE <<>>) \o PrevWalk(S, prev)

\* onIncomingCalls after getDeclarations(from): the entry is pushed.
AfterCallDeclarations(S, v) ==
  LET g     == v.group[v.j]
      decls == PrevWalk(S, g.head)
  IN  GroupLoop([v EXCEPT
        !.out = Append(@, CallEntry(g.head, v.uri,
                   <<g.head.number>> \o [n \in 1..Len(decls) |-> decls[n].number],
                   v.ranges)),
        !.j = @ + 1])

\* onOutgoingCalls after getUri(definition), then getDocument(uri).
AfterCallUri(S, v) ==
  LET res == Query_filename(S, v.data[1].begin_src)
  IN  IF res.err # "" THEN CallFailed(v, res.err)
      ELSE IF res.val = "" \/ StartsWithLt(res.val)
      THEN CallRespond(v, TRUE, <<>>)
      ELSE [v EXCEPT !.pc = "callees", !.uri = res.val]

\* onOutgoingCalls after query.callees.
AfterCallees(S, v) ==
  CalleeLoop([v EXCEPT !.refs = Query_callees(S, v.data[1]).val, !.i = 1])

\* getDefinition's loop: the last row found by following query.next.
RECURSIVE NextWalk(_, _)
NextWalk(S, decl) ==
  LET next == Query_next(S, decl.ptr).val
  IN  IF next.number = 0 THEN decl ELSE NextWalk(S, next)

\* getDefinition(node), for a row node.
DefinitionWalk(S, node) ==
  LET decl == IF node.ref_ptr # NoPtr
              THEN Query_nodeByPtr(S, node.ref_ptr).val ELSE node
  IN  IF decl.kind = "FunctionDecl" THEN NextWalk(S, decl) ELSE decl

\* onOutgoingCalls after getDefinition(node).
AfterCallDefinition(S, v) ==
  LET node == v.refs[v.i]
      to   == DefinitionWalk(S, node)
      g    == GroupAdd(v.group, to)
      n    == GroupIndex(g, to.ptr)
  IN  IF to.number = 0 THEN CalleeLoop([v EXCEPT !.i = @ + 1])
      ELSE IF node.exp_row # 0
      THEN [v EXCEPT !.pc = "exp", !.from = to, !.group = g]
      ELSE CalleeLoop([v EXCEPT
             !.from = to, !.i = @ + 1,
             !.group = [g EXCEPT ![n].ranges =
                          Append(@, getRanges(node, CallText))]])

(***************************************************************************)
(* CallSpec: one call-hierarchy request against every generated call       *)
(* graph; the store does not fail and the translation unit is not          *)
(* switched.                                                               *)
(***************************************************************************)
CallGraphs == [site1 : Sites, site2 : Sites]

\* The snapshot of the call graph in this world.
CallStore == CallGraph(world)

\* item.data as the server sent it in an earlier answer (the rows of a
\* definition and of its declarations), or an item without data.
CallInputs ==
  LET S == CallStore
  IN  {[kind |-> k, data |-> d] :
         k \in {"incoming", "outgoing"},
         d \in {<<>>, <<S.ast[2], S.ast[1]>>, <<S.ast[3]>>, <<S.ast[6]>>}}

CallInit ==
  /\ world \in CallGraphs
  /\ tu = "a.o"
  /\ db = 1
  /\ allDatabases = [p \in Paths |-> IF p = "a.o" THEN Handle(p) ELSE 0]
  /\ documents = [f \in Files |-> FALSE]
  /\ docWrites = [f \in Files |-> 0]
  /\ req = [r \in Requests |-> CallIdle]

CallStart(r, inp) ==
  /\ req[r].pc = "idle"
  /\ req' = [req EXCEPT ![r] =
       IF inp.kind = "incoming"
       THEN onIncomingCalls([CallIdle EXCEPT !.kind = inp.kind, !.data = inp.data])
       ELSE onOutgoingCalls([CallIdle EXCEPT !.kind = inp.kind, !.data = inp.data])]
  /\ UNCHANGED shared

AwaitCallRefs(r) ==
  /\ req[r].pc = "callrefs"
  /\ req' = [req EXCEPT ![r] = AfterCallRefs(CallStore, @)]
  /\ UNCHANGED shared

AwaitCaller(r) ==
  /\ req[r].pc = "caller"
  /\ req' = [req EXCEPT ![r] = AfterCaller(CallStore, @)]
  /\ UNCHANGED shared

\* getLink: the document of the head's file is read on a cache miss.
AwaitGroupLink(r) ==
  /\ req[r].pc = "grouplink"
  /\ req' = [req EXCEPT ![r] = AfterGroupLink(CallStore, @)]
  /\ LET res == Query_filename(CallStore, req[r].group[req[r].j].head.begin_src)
     IN  IF res.err = "" /\ res.val # "" /\ ~StartsWithLt(res.val)
            /\ ~getDocumentHit(documents, res.val)
         THEN /\ documents' = [documents EXCEPT ![res.val] = TRUE]
              /\ docWrites' = [docWrites EXCEPT ![res.val] = @ + 1]
         ELSE UNCHANGED <<documents, docWrites>>
  /\ UNCHANGED <<world, tu, db, allDatabases>>

AwaitExp(r) ==
  /\ req[r].pc = "exp"
  /\ req' = [req EXCEPT ![r] = AfterExp(CallStore, @)]
  /\ UNCHANGED shared

AwaitCallDeclarations(r) ==
  /\ req[r].pc = "calldecls"
  /\ req' = [req EXCEPT ![r] = AfterCallDeclarations(CallStore, @)]
  /\ UNCHANGED shared

AwaitCallUri(r) ==
  /\ req[r].pc = "calluri"
  /\ req' = [req EXCEPT ![r] = AfterCallUri(CallStore, @)]
  /\ LET res == Query_filename(CallStore, req[r].data[1].begin_src)
     IN  IF res.err = "" /\ res.val # "" /\ ~StartsWithLt(res.val)
            /\ ~getDocumentHit(documents, res.val)
         THEN /\ documents' = [documents EXCEPT ![res.val] = TRUE]
              /\ docWrites' = [docWrites EXCEPT ![res.val] = @ + 1]
         ELSE UNCHANGED <<documents, docWrites>>
  /\ UNCHANGED <<world, tu, db, allDatabases>>

AwaitCallees(r) ==
  /\ req[r].pc = "callees"
  /\ req' = [req EXCEPT ![r] = AfterCallees(CallStore, @)]
  /\ UNCHANGED shared

AwaitCallDefinition(r) ==
  /\ req[r].pc = "calldef"
  /\ req' = [req EXCEPT ![r] = AfterCallDefinition(CallStore, @)]
  /\ UNCHANGED shared

CallNext ==
  \/ \E inp \in CallInputs : CallStart(1, inp)
  \/ AwaitCallRefs(1)
  \/ AwaitCaller(1)
  \/ AwaitGroupLink(1)
  \/ AwaitExp(1)
  \/ AwaitCallDeclarations(1)
  \/ AwaitCallUri(1)
  \/ AwaitCallees(1)
  \/ AwaitCallDefinition(1)

CallSpec == CallInit /\ [][CallNext]_vars

(***************************************************************************)
(* The call hierarchy, stated on the rows of a snapshot.                   *)
(***************************************************************************)
\* The preorder-subtree invariant: the subtree of a row is the contiguous
\* range [number, final_number], so two subtrees are nested or disjoint,
\* and a row lies in the subtree of its parent.
PreorderSubtrees(S) ==
  /\ \A a \in AstSet(S) : a.number <= a.final_number
  /\ \A a, b \in AstSet(S) :
       a.number < b.number =>
         b.number > a.final_number \/ b.final_number <= a.final_number
  /\ \A c \in AstSet(S) :
       c.parent_number # 0 =>
         \E q \in AstSet(S) :
           /\ q.number = c.parent_number
           /\ q.number < c.number
           /\ c.final_number <= q.final_number

\* The top-level functions whose subtree holds the row numbered n.
EnclosingFunctions(S, n) ==
  {f \in AstSet(S) :
     /\ f.kind = "FunctionDecl"
     /\ f.parent_number = 0
     /\ f.number < n
     /\ n <= f.final_number}

\* The row x lies below the row d, by its chain of parents.
RECURSIVE Below(_, _, _)
Below(S, x, d) ==
  /\ x.parent_number # 0
  /\ \/ x.parent_number = d.number
     \/ \E q \in AstSet(S) : q.number = x.parent_number /\ Below(S, q, d)

\* The contexts of incoming calls that hold the answer of query.caller for
\* the reference refs[i - 1].
CallerKnown(v) ==
  /\ v.kind = "incoming"
  /\ v.pc \in {"caller", "grouplink", "exp", "calldecls"}
  /\ v.i > 1

\* C13: under the preorder-subtree invariant every reference row lies in
\* the subtree of at most one top-level FunctionDecl (number < r <=
\* final_number), and query.caller(r) answers that function, or nothing
\* when the reference lies in no top-level function.
C13_CallerIsEnclosing ==
  LET S == CallStore
  IN  PreorderSubtrees(S) =>
        /\ \A x \in AstSet(S) :
             x.kind = "DeclRefExpr" =>
               Cardinality(EnclosingFunctions(S, x.number)) <= 1
        /\ \A r \in Requests :
             CallerKnown(req[r]) =>
               LET fs == EnclosingFunctions(S, req[r].refs[req[r].i - 1].number)
               IN  IF fs = {} THEN req[r].from.number = 0
                   ELSE req[r].from \in fs

\* The caller of the reference below the nested function in is bar, and
\* the reference in the initialiser of p has no caller.
C13_Witness ==
  /\ PreorderSubtrees(CallStore)
  /\ CallerKnown(req[1])
  /\ req[1].i = Len(req[1].refs) + 1
  /\ req[1].refs[req[1].i - 1].number = 10
  /\ req[1].from.number = 0
  /\ \E n \in 1..Len(req[1].group) :
       /\ req[1].group[n].head.name = "bar"
       /\ \E m \in 1..Len(req[1].group[n].nodes) :
            req[1].group[n].nodes[m].parent_number = 7

\* The contexts of outgoing calls that hold the answer of query.callees.
CalleesKnown(v) ==
  /\ v.kind = "outgoing"
  /\ v.pc \in {"calldef", "exp", "grouplink"}

\* The call sites of the definition d: the DeclRefExpr rows below d that
\* refer to a function and have a call expression among their ancestors.
CallSites(S, d) ==
  {x \in AstSet(S) :
     /\ x.kind = "DeclRefExpr"
     /\ x.ref_kind = "Function"
     /\ \E n \in 1..Len(x.ancestors) : x.ancestors[n] = "CallExpr"
     /\ Below(S, x, d)}

\* C14: the rows query.callees(definition) answers are the DeclRefExpr
\* rows in the subtree of the definition that refer to a function and have
\* a CallExpr ancestor; a reference without a CallExpr ancestor and a row
\* outside the subtree are not among them.
C14_CalleesAreCallSites ==
  \A r \in Requests :
    CalleesKnown(req[r]) =>
      Range(req[r].refs) = CallSites(CallStore, req[r].data[1])

\* foo has a call site and a reference to the value of a function, and the
\* call site alone is answered.
C14_Witness ==
  /\ CalleesKnown(req[1])
  /\ req[1].data[1].name = "foo"
  /\ Range(req[1].refs) = {CallStore.ast[4]}
  /\ CallStore.ast[5].ref_kind = "Function"
  /\ \A n \in 1..Len(CallStore.ast[5].ancestors) :
       CallStore.ast[5].ancestors[n] # "CallExpr"

\* The definition of the function the reference x refers to.
TargetOf(S, x) == DefinitionOf(S, NodeAt(S, x.ref_ptr))

\* The call sites behind the entry e of the answer to the request v: for
\* outgoing calls the call sites of the definition whose target is e, for
\* incoming calls the references to the item's declarations that lie in
\* the function e.
EntrySites(S, v, e) ==
  IF v.kind = "outgoing"
  THEN {x \in CallSites(S, v.data[1]) : TargetOf(S, x).ptr = e.ptr}
  ELSE {x \in AstSet(S) :
          /\ x.kind = "DeclRefExpr"
          /\ \E n \in 1..Len(v.data) : x.ref_ptr = v.data[n].ptr
          /\ \E f \in EnclosingFunctions(S, x.number) : f.ptr = e.ptr}

\* The request v was answered with a list of entries.
CallAnswered(v) ==
  /\ v.pc = "done"
  /\ v.kind \in {"incoming", "outgoing"}
  /\ ~v.null

\* C15: no two entries of an answer have the same target (outgoing) or
\* caller (incoming) ptr; the call sites of one target, whichever of its
\* redeclarations they refer to, are merged into one entry that has one
\* range for each of them (two call sites of ff in foo: one entry with
\* two fromRanges).
C15_OneEntryPerTarget ==
  \A r \in Requests :
    CallAnswered(req[r]) =>
      LET v == req[r]
          S == CallStore
      IN  /\ NoDuplicates([n \in 1..Len(v.out) |-> v.out[n].ptr])
          /\ \A x \in (IF v.kind = "outgoing" THEN CallSites(S, v.data[1])
                       ELSE {}) :
               TargetOf(S, x).number # 0 =>
                 \E n \in 1..Len(v.out) : v.out[n].ptr = TargetOf(S, x).ptr
          /\ \A n \in 1..Len(v.out) :
               Len(v.out[n].fromRanges) = Cardinality(EntrySites(S, v, v.out[n]))

\* The loc rows that begin at the expansion origin of the row x.
OriginSpans(S, x) ==
  {l \in Range(S.loc) :
     /\ l.begin_src = x.exp_src
     /\ l.begin_row = x.exp_row
     /\ l.begin_col = x.exp_col}

\* The range of a loc row, zero-based.
SpanRange(l) ==
  [start |-> Pos(l.begin_row - 1, l.begin_col - 1),
   end |-> Pos(l.end_row - 1, l.end_col - 1)]

\* The range of the name of the row x, zero-based: the name is on one line.
NameRange(x) ==
  [start |-> Pos(x.row - 1, x.col - 1),
   end |-> Pos(x.row - 1, x.col - 1 + Len(x.name))]

\* C16 as stated: every call site of an entry contributes a range, the
\* LocSpan that begins at its expansion origin when it has one (exp_row
\* set), its own name range otherwise, and no other range is reported.
C16_EverySiteHasRange ==
  \A r \in Requests :
    CallAnswered(req[r]) =>
      \A n \in 1..Len(req[r].out) :
        LET e     == req[r].out[n]
            sites == EntrySites(CallStore, req[r], e)
        IN  /\ \A x \in sites :
                 IF x.exp_row # 0
                 THEN \E l \in OriginSpans(CallStore, x) :
                        SpanRange(l) \in Range(e.fromRanges)
                 ELSE NameRange(x) \in Range(e.fromRanges)
            /\ \A k \in 1..Len(e.fromRanges) :
                 \E x \in sites :
                   IF x.exp_row # 0
                   THEN \E l \in OriginSpans(CallStore, x) :
                          SpanRange(l) = e.fromRanges[k]
                   ELSE NameRange(x) = e.fromRanges[k]

\* C16: the ranges of an entry are the LocSpans that begin at the
\* expansion origins of its call sites that have one (exp_row set) and the
\* own name ranges of the call sites without an origin; a call site whose
\* origin no LocSpan begins at contributes no range.
C16_RangeOfOrigin ==
  \A r \in Requests :
    CallAnswered(req[r]) =>
      \A n \in 1..Len(req[r].out) :
        LET e     == req[r].out[n]
            sites == EntrySites(CallStore, req[r], e)
        IN  Range(e.fromRanges) =
              {SpanRange(l) : l \in UNION {OriginSpans(CallStore, x) :
                                             x \in {y \in sites : y.exp_row # 0}}}
              \cup {NameRange(x) : x \in {y \in sites : y.exp_row = 0}}

\* foo calls ff at two sites expanded from a macro, the span of the second
\* is not in the loc table, and the entry for ff has the span of the first
\* as its only range.
C16_Witness ==
  /\ CallAnswered(req[1])
  /\ req[1].kind = "outgoing"
  /\ world.site1.exp = "span"
  /\ world.site2.exp = "lost"
  /\ Len(req[1].out) = 1
  /\ Cardinality(EntrySites(CallStore, req[1], req[1].out[1])) = 2
  /\ Range(req[1].out[1].fromRanges) = {[start |-> Pos(2, 4), end |-> Pos(2, 6)]}

(***************************************************************************)
(* The hover text.  A text is the sequence of its char codes; a mark is    *)
(* modelled by its toText().                                               *)
(***************************************************************************)
\* content.replace(/[_*]/g, "\\$&")
RECURSIVE Escape(_)
Escape(content) ==
  IF content = <<>> THEN <<>>
  ELSE (IF content[1] \in {95, 42} THEN <<92, content[1]>> ELSE <<content[1]>>)
       \o Escape(Tail(content))

\* `content`
Code(content) == <<96>> \o content \o <<96>>
\* *content*
Emphasis(content) == <<42>> \o Escape(content) \o <<42>>
\* **content**
Strong(content) == <<42, 42>> \o Escape(content) \o <<42, 42>>

space == <<32>>
colon == <<58>>
newLine == <<10, 10>>
thematicBreak == <<45, 45, 45>>

\* "extern", "static", "inline", "const", "volatile": specMarks by bit.
specMarks ==
  <<[bit |-> 1, word |-> <<101, 120, 116, 101, 114, 110>>],
    [bit |-> 2, word |-> <<115, 116, 97, 116, 105, 99>>],
    [bit |-> 4, word |-> <<105, 110, 108, 105, 110, 101>>],
    [bit |-> 8, word |-> <<99, 111, 110, 115, 116>>],
    [bit |-> 16, word |-> <<118, 111, 108, 97, 116, 105, 108, 101>>]>>

\* getSpecsMarks(specs), from the mark at index k on: specs & bit.
RECURSIVE SpecsMarksFrom(_, _)
SpecsMarksFrom(specs, k) ==
  IF k > Len(specMarks) THEN <<>>
  ELSE (IF (specs \div specMarks[k].bit) % 2 = 1
        THEN Emphasis(specMarks[k].word) \o space ELSE <<>>)
       \o SpecsMarksFrom(specs, k + 1)

getSpecsMarks(specs) == SpecsMarksFrom(specs, 1)

\* hoverHandler's switch on node.kind, for the kinds without an await:
\* "typedef", "field", "struct".
KindMarks(node) ==
  IF node.kind = "TypedefDecl"
  THEN Emphasis(<<116, 121, 112, 101, 100, 101, 102>>) \o space
  ELSE IF node.kind = "FieldDecl"
  THEN Emphasis(<<102, 105, 101, 108, 100>>) \o space
  ELSE IF node.kind = "RecordDecl" /\ node.class = 1
  THEN Emphasis(<<115, 116, 114, 117, 99, 116>>) \o space
  ELSE <<>>

\* The name of a node that is not a macro.
NameMarks(node) == IF node.name # <<>> THEN Strong(node.name) ELSE <<>>

\* The type of a node as it would be with the desugared type whenever
\* there is one.
TypeMarks_always(node) ==
  (IF node.qualified_type # <<>>
   THEN colon \o space \o Emphasis(node.qualified_type) ELSE <<>>)
  \o (IF node.desugared_type # <<>>
      THEN space \o Code(node.desugared_type) ELSE <<>>)

\* The type of a node without class.
TypeMarks(node) ==
  (IF node.qualified_type # <<>>
   THEN colon \o space \o Emphasis(node.qualified_type) ELSE <<>>)
  \o (IF node.desugared_type # <<>> /\ node.desugared_type # node.qualified_type
      THEN space \o Code(node.desugared_type) ELSE <<>>)

\* The marks pushed after query.filename(node.begin_src): the file and
\* "provided".
ProviderMarks(filename) ==
  IF filename # <<>>
  THEN newLine \o thematicBreak \o newLine \o Code(filename) \o space
       \o Emphasis(<<112, 114, 111, 118, 105, 100, 101, 100>>)
  ELSE <<>>

\* The marks of a node without class that is neither a macro nor an
\* expansion, up to the await of query.filename.
hoverMarks(node) ==
  getSpecsMarks(node.specs) \o KindMarks(node) \o NameMarks(node)
  \o TypeMarks(node)

(***************************************************************************)
(* HoverSpec: the hover of one node without class, for every node drawn    *)
(* from HoverNodes and either file hovered.  The src table names /a.c,     *)
(* /h.h and <built-in>.                                                    *)
(***************************************************************************)
\* "/a.c", "/h.h", "<built-in>"
HoverStore ==
  [src |-> <<SrcRow(1, <<47, 97, 46, 99>>), SrcRow(2, <<47, 104, 46, 104>>),
             SrcRow(3, <<60, 98, 117, 105, 108, 116, 45, 105, 110, 62>>)>>]

\* The nodes hovered: names "", "u32", "a_b"; types "", "unsigned int",
\* "int"; begin_src -1 (none), 1..3 and 9 (not in the src table).
HoverNodes ==
  [kind : {"TypedefDecl", "FieldDecl", "VarDecl", "FunctionDecl"},
   name : {<<>>, <<117, 51, 50>>, <<97, 95, 98>>},
   specs : {0, 1, 2, 3, 8, 24, 32, 63},
   class : {0},
   qualified_type :
     {<<>>, <<117, 110, 115, 105, 103, 110, 101, 100, 32, 105, 110, 116>>},
   desugared_type :
     {<<>>, <<117, 110, 115, 105, 103, 110, 101, 100, 32, 105, 110, 116>>,
      <<105, 110, 116>>},
   begin_src : {-1, 1, 2, 3, 9}]

HoverIdle ==
  [pc |-> "idle", src |-> 0, node |-> NoNode, marks |-> <<>>,
   null |-> FALSE, text |-> <<>>, err |-> ""]

\* markHandler: the hover with value.mark.toText().
markHandler(v, marks) == [v EXCEPT !.pc = "done", !.text = marks]

HoverInit ==
  /\ world \in [src : {1, 2}, node : HoverNodes]
  /\ tu = "a.o"
  /\ db = 1
  /\ allDatabases = [p \in Paths |-> IF p = "a.o" THEN Handle(p) ELSE 0]
  /\ documents = [f \in Files |-> FALSE]
  /\ docWrites = [f \in Files |-> 0]
  /\ req = [r \in Requests |-> HoverIdle]

\* hoverHandler on the node the token resolved to, in the file world.src,
\* up to its await of query.filename.
HoverNode(r) ==
  /\ req[r].pc = "idle"
  /\ req' = [req EXCEPT ![r] =
       LET v == [HoverIdle EXCEPT !.src = world.src, !.node = world.node,
                                  !.marks = hoverMarks(world.node)]
       IN  IF world.node.begin_src # -1 THEN [v EXCEPT !.pc = "provider"]
           ELSE markHandler(v, v.marks)]
  /\ UNCHANGED shared

\* hoverHandler after query.filename(node.begin_src), then markHandler.
AwaitProvider(r) ==
  /\ req[r].pc = "provider"
  /\ req' = [req EXCEPT ![r] =
       LET res == Query_filename(HoverStore, @.node.begin_src)
       IN  IF res.err # "" THEN [@ EXCEPT !.pc = "failed", !.err = res.err]
           ELSE markHandler(@, @.marks \o ProviderMarks(res.val))]
  /\ UNCHANGED shared

HoverNext ==
  \/ HoverNode(1)
  \/ AwaitProvider(1)

HoverSpec == HoverInit /\ [][HoverNext]_vars

(***************************************************************************)
(* The hover text, stated on the node.                                     *)
(***************************************************************************)
\* The text cs with a backslash before each '_' and '*'.
RECURSIVE EscapedUpTo(_, _)
EscapedUpTo(cs, n) ==
  IF n = 0 THEN <<>>
  ELSE EscapedUpTo(cs, n - 1)
       \o (IF cs[n] = 95 \/ cs[n] = 42 THEN <<92>> ELSE <<>>) \o <<cs[n]>>

Italic(cs) == <<42>> \o EscapedUpTo(cs, Len(cs)) \o <<42>>
Bold(cs) == <<42, 42>> \o EscapedUpTo(cs, Len(cs)) \o <<42, 42>>
CodeSpan(cs) == <<96>> \o cs \o <<96>>

\* The keyword of the bit b of specs in italics and a space, if b is set.
Keyword(specs, b, word) ==
  IF (specs \div b) % 2 = 1 THEN Italic(word) \o <<32>> ELSE <<>>

\* extern, static, inline, const, volatile.
Keywords(specs) ==
  Keyword(specs, 1, <<101, 120, 116, 101, 114, 110>>)
  \o Keyword(specs, 2, <<115, 116, 97, 116, 105, 99>>)
  \o Keyword(specs, 4, <<105, 110, 108, 105, 110, 101>>)
  \o Keyword(specs, 8, <<99, 111, 110, 115, 116>>)
  \o Keyword(specs, 16, <<118, 111, 108, 97, 116, 105, 108, 101>>)

\* The kind-specific prefix in italics and a space: typedef, field.
Prefix(node) ==
  IF node.kind = "TypedefDecl"
  THEN Italic(<<116, 121, 112, 101, 100, 101, 102>>) \o <<32>>
  ELSE IF node.kind = "FieldDecl"
  THEN Italic(<<102, 105, 101, 108, 100>>) \o <<32>>
  ELSE <<>>

\* The hover text of a node, with sep between the name and the type.
Rendered(node, sep) ==
  Keywords(node.specs) \o Prefix(node)
  \o (IF node.name # <<>> THEN Bold(node.name) ELSE <<>>)
  \o (IF node.qualified_type # <<>>
      THEN sep \o Italic(node.qualified_type) ELSE <<>>)
  \o (IF node.desugared_type # <<>> /\ node.desugared_type # node.qualified_type
      THEN <<32>> \o CodeSpan(node.desugared_type) ELSE <<>>)

\* {kind TypedefDecl, name u32, specs 0, qualified_type "unsigned int",
\*  desugared_type "unsigned int"}
IsU32(node) ==
  /\ node.kind = "TypedefDecl"
  /\ node.name = <<117, 51, 50>>
  /\ node.specs = 0
  /\ node.qualified_type = <<117, 110, 115, 105, 103, 110, 101, 100, 32, 105, 110, 116>>
  /\ node.desugared_type = node.qualified_type

\* The contexts of hovers whose node has been rendered.
HoverRendered(v) == v.pc \in {"provider", "done", "failed"}

\* C17 as stated: the text of a node without class is the keywords of
\* specs, the prefix of the kind in italics, the bold name, a space and
\* the qualified type in italics, and the desugared type in a code span
\* when it differs; the typedef u32 renders as
\* "*typedef* **u32** *unsigned int*".
C17_HoverText ==
  \A r \in Requests :
    HoverRendered(req[r]) =>
      /\ req[r].marks = Rendered(req[r].node, <<32>>)
      /\ IsU32(req[r].node) =>
           req[r].marks =
             <<42, 116, 121, 112, 101, 100, 101, 102, 42, 32, 42, 42, 117, 51,
               50, 42, 42, 32, 42, 117, 110, 115, 105, 103, 110, 101, 100, 32,
               105, 110, 116, 42>>

\* C17: the text of a node without class is the keywords of specs, the
\* prefix of the kind in italics, the bold name, a colon, a space and the
\* qualified type in italics, and the desugared type in a code span when
\* it differs; the typedef u32 renders as
\* "*typedef* **u32**: *unsigned int*".
C17_HoverTextColon ==
  \A r \in Requests :
    HoverRendered(req[r]) =>
      /\ req[r].marks = Rendered(req[r].node, <<58, 32>>)
      /\ IsU32(req[r].node) =>
           req[r].marks =
             <<42, 116, 121, 112, 101, 100, 101, 102, 42, 32, 42, 42, 117, 51,
               50, 42, 42, 58, 32, 42, 117, 110, 115, 105, 103, 110, 101, 100,
               32, 105, 110, 116, 42>>

\* The typedef u32 has been rendered, with the colon and without a code
\* span.
C17_Witness ==
  /\ HoverRendered(req[1])
  /\ IsU32(req[1].node)
  /\ req[1].marks =
       <<42, 116, 121, 112, 101, 100, 101, 102, 42, 32, 42, 42, 117, 51,
         50, 42, 42, 58, 32, 42, 117, 110, 115, 105, 103, 110, 101, 100,
         32, 105, 110, 116, 42>>

\* The filenames of the src rows numbered n (none, or one).
FilenamesOf(S, n) == {x.filename : x \in {y \in Range(S.src) : y.number = n}}

\* C18: the annotation that names the file providing the node is appended
\* to a hover exactly when the origin file of the node differs from the
\* file hovered and its filename does not start with '<'; a node of the
\* hovered file itself or of a built-in location has no annotation.
C18_ProvidedByOtherFile ==
  \A r \in Requests :
    req[r].pc = "done" /\ req[r].node # NoNode /\ req[r].src # 0 =>
      LET v == req[r]
      IN  (v.text # v.marks) <=>
            \E f \in FilenamesOf(HoverStore, v.node.begin_src) :
              /\ v.node.begin_src # v.src
              /\ f[1] # 60

(***************************************************************************)
(* Semantic tokens.                                                        *)
(***************************************************************************)
\* An absent range (textDocument/semanticTokens/full).
NoRange == [start |-> NoPos, end |-> NoPos]

\* Query.semantics(src, range): the loc rows that begin in src, within
\* range if there is one.
Query_semantics(S, src, range) ==
  Resolve(SelectSeq(S.loc, LAMBDA x :
    /\ x.begin_src = src
    /\ range # NoRange =>
         /\ \/ range.start.line + 1 = x.begin_row
               /\ range.start.character + 1 <= x.begin_col
            \/ range.start.line + 1 < x.begin_row
         /\ \/ x.end_row = range.end.line + 1
               /\ x.end_col <= range.end.character + 1
            \/ x.end_row < range.end.line + 1))

\* getTokenSemantics: the tokenType ("macro" 0, "comment" 1).
getTokenSemantics(semantics) ==
  IF semantics = SEMANTIC_EXPANSION THEN 0 ELSE 1

\* The do-while loop of onTextDocumentSemanticTokens as it would be
\* without begin_col = 1: a continuation line starts at the column of the
\* first line.
RECURSIVE SpanItems_column(_, _, _, _, _)
SpanItems_column(t, value, begin_row, begin_col, offset) ==
  LET at         == Pos(begin_row - 1, begin_col - 1)
      nextOffset == OffsetAt(t, Pos(begin_row, 0))
      item ==
        [tokenType |-> getTokenSemantics(value.semantics), tokenModifier |-> 0,
         line |-> at.line, character |-> at.character,
         length |-> IF begin_row = value.end_row
                    THEN value.end_col - begin_col
                    ELSE nextOffset - (IF offset # 0 THEN offset
                                       ELSE OffsetAt(t, at))]
  IN  <<item>> \o
      (IF begin_row + 1 <= value.end_row
       THEN SpanItems_column(t, value, begin_row + 1, begin_col,
                             IF begin_row = value.end_row THEN offset
                             ELSE nextOffset)
       ELSE <<>>)

\* The do-while loop of onTextDocumentSemanticTokens for the loc row
\* value, at begin_row and begin_col, in the document with text t.
RECURSIVE SpanItems(_, _, _, _, _)
SpanItems(t, value, begin_row, begin_col, offset) ==
  LET at         == Pos(begin_row - 1, begin_col - 1)
      nextOffset == OffsetAt(t, Pos(begin_row, 0))
      item ==
        [tokenType |-> getTokenSemantics(value.semantics), tokenModifier |-> 0,
         line |-> at.line, character |-> at.character,
         length |-> IF begin_row = value.end_row
                    THEN value.end_col - begin_col
                    ELSE nextOffset - (IF offset # 0 THEN offset
                                       ELSE OffsetAt(t, at))]
  IN  <<item>> \o
      (IF begin_row + 1 <= value.end_row
       THEN SpanItems(t, value, begin_row + 1, 1,
                      IF begin_row = value.end_row THEN offset ELSE nextOffset)
       ELSE <<>>)

\* The loop over semanticRanges, from the row at index k on.
RECURSIVE RangeItems(_, _, _)
RangeItems(t, semanticRanges, k) ==
  IF k > Len(semanticRanges) THEN <<>>
  ELSE SpanItems(t, semanticRanges[k], semanticRanges[k].begin_row,
                 semanticRanges[k].begin_col, 0)
       \o RangeItems(t, semanticRanges, k + 1)

\* The comparator of items.sort: a negative number when a comes first.
CompareItems(a, b) ==
  IF a.line - b.line = 0 THEN a.character - b.character ELSE a.line - b.line

\* Array.prototype.sort, which is stable: the item x is put after the
\* items of the sorted list that do not come after it.
InsertItem(sorted, x) ==
  LET before == {n \in 1..Len(sorted) : CompareItems(sorted[n], x) <= 0}
  IN  SubSeq(sorted, 1, Cardinality(before)) \o <<x>>
      \o SubSeq(sorted, Cardinality(before) + 1, Len(sorted))

RECURSIVE SortItems(_, _)
SortItems(items, n) ==
  IF n = 0 THEN <<>> ELSE InsertItem(SortItems(items, n - 1), items[n])

\* The flatMap callback as it would be with the character always relative
\* to the previous item.
EncodeItem_relative(items, i) ==
  IF i = 1
  THEN <<items[i].line, items[i].character, items[i].length,
         items[i].tokenType, items[i].tokenModifier>>
  ELSE <<items[i].line - items[i - 1].line,
         items[i].character - items[i - 1].character, items[i].length,
         items[i].tokenType, items[i].tokenModifier>>

\* The flatMap callback for the item at index i (1-based) of the sorted
\* items.
EncodeItem(items, i) ==
  IF i = 1
  THEN <<items[i].line, items[i].character, items[i].length,
         items[i].tokenType, items[i].tokenModifier>>
  ELSE IF items[i].line = items[i - 1].line
  THEN <<0, items[i].character - items[i - 1].character, items[i].length,
         items[i].tokenType, items[i].tokenModifier>>
  ELSE <<items[i].line - items[i - 1].line, items[i].character,
         items[i].length, items[i].tokenType, items[i].tokenModifier>>

RECURSIVE EncodeItems(_, _)
EncodeItems(items, n) ==
  IF n = 0 THEN <<>> ELSE EncodeItems(items, n - 1) \o EncodeItem(items, n)

(***************************************************************************)
(* TokensSpec: one semantic-tokens request (full, or for a range) on      *)
(* /a.c, for every loc table of at most MaxSpans spans of /a.c.  The file *)
(* has three lines, "ab", "cd" and "e".                                    *)
(***************************************************************************)
\* Most spans of a generated loc table.
MaxSpans == 2

\* "ab\ncd\ne"
TokensText == <<97, 98, 10, 99, 100, 10, 101>>

\* The spans of /a.c: begin before end, both at a column 1..3 of a row
\* 1..3.
TokenSpans ==
  {x \in [begin_src : {1}, begin_row : 1..3, begin_col : 1..3,
          end_src : {1}, end_row : 1..3, end_col : 1..3,
          semantics : {SEMANTIC_EXPANSION, SEMANTIC_INACTIVE}] :
     \/ x.begin_row < x.end_row
     \/ x.begin_row = x.end_row /\ x.begin_col < x.end_col}

\* The loc table: the spans of /a.c after a span of /h.h.
TokensStore ==
  [src |-> <<SrcRow(1, FileA), SrcRow(2, FileH)>>,
   loc |-> <<LocRow(2, 1, 1, 1, 3, SEMANTIC_EXPANSION)>> \o world.spans]

TokenRanges == {NoRange, [start |-> Pos(0, 1), end |-> Pos(1, 2)]}

TokensIdle ==
  [pc |-> "idle", src |-> 0, range |-> NoRange, spans |-> <<>>,
   items |-> <<>>, data |-> <<>>, err |-> ""]

TokensInit ==
  /\ world \in [spans : UNION {[1..n -> TokenSpans] : n \in 0..MaxSpans}]
  /\ tu = "a.o"
  /\ db = 1
  /\ allDatabases = [p \in Paths |-> IF p = "a.o" THEN Handle(p) ELSE 0]
  /\ documents = [f \in Files |-> FALSE]
  /\ docWrites = [f \in Files |-> 0]
  /\ req = [r \in Requests |-> TokensIdle]

\* The request arrives: getUriInfo(textDocument.uri), then query.semantics
\* is awaited.
TokensStart(r, range) ==
  /\ req[r].pc = "idle"
  /\ LET res == Query_src(TokensStore, FileA)
     IN  req' = [req EXCEPT ![r] =
           IF res.err # "" THEN [TokensIdle EXCEPT !.pc = "failed", !.err = res.err]
           ELSE [TokensIdle EXCEPT !.pc = "semantics", !.src = res.val,
                                   !.range = range]]
  /\ documents' = [documents EXCEPT ![FileA] = TRUE]
  /\ docWrites' = [docWrites EXCEPT ![FileA] = @ + 1]
  /\ UNCHANGED <<world, tu, db, allDatabases>>

\* onTextDocumentSemanticTokens after query.semantics: the items of the
\* spans, sorted and encoded.
AwaitSemantics(r) ==
  /\ req[r].pc = "semantics"
  /\ LET semanticRanges == Query_semantics(TokensStore, req[r].src, req[r].range).val
         items  == RangeItems(TokensText, semanticRanges, 1)
         sorted == SortItems(items, Len(items))
     IN  req' = [req EXCEPT ![r] =
           [@ EXCEPT !.pc = "done", !.spans = semanticRanges,
                     !.items = sorted,
                     !.data = EncodeItems(sorted, Len(sorted))]]
  /\ UNCHANGED shared

TokensNext ==
  \/ \E range \in TokenRanges : TokensStart(1, range)
  \/ AwaitSemantics(1)

TokensSpec == TokensInit /\ [][TokensNext]_vars

(***************************************************************************)
(* Semantic tokens, stated on the spans and on the encoded data.           *)
(***************************************************************************)
\* The number of indexes of the sequence s that hold x.
Count(s, x) == Cardinality({n \in 1..Len(s) : s[n] = x})

\* The sequences a and b hold the same elements, each as many times.
SameBag(a, b) == \A x \in Range(a) \cup Range(b) : Count(a, x) = Count(b, x)

\* The decoding of delta-encoded data: the tokens k + 1 .. of data, after
\* a token at (line, character); deltaStart is relative to the previous
\* token on the same line only.
RECURSIVE DecodeFrom(_, _, _, _)
DecodeFrom(data, k, line, character) ==
  IF 5 * k + 5 > Len(data) THEN <<>>
  ELSE LET deltaLine  == data[5 * k + 1]
           deltaStart == data[5 * k + 2]
           l == line + deltaLine
           c == IF deltaLine = 0 THEN character + deltaStart ELSE deltaStart
       IN  <<[line |-> l, character |-> c, length |-> data[5 * k + 3],
              tokenType |-> data[5 * k + 4], tokenModifier |-> data[5 * k + 5]]>>
           \o DecodeFrom(data, k + 1, l, c)

Decode(data) == DecodeFrom(data, 0, 0, 0)

\* The tokens s are in (line, character) order.
InPositionOrder(s) ==
  \A j, k \in 1..Len(s) :
    j < k =>
      \/ s[j].line < s[k].line
      \/ s[j].line = s[k].line /\ s[j].character <= s[k].character

\* The semantic-tokens request v was answered.
TokensAnswered(v) == v.pc = "done" /\ v.src # 0

\* C19: decoding the data of an answer by accumulating deltaLine and
\* deltaStart (deltaStart relative to the previous token on the same line
\* only) gives the absolute (line, character, length, tokenType,
\* tokenModifier) tuples of the emitted tokens, in (line, character) order.
C19_DeltaRoundTrip ==
  \A r \in Requests :
    TokensAnswered(req[r]) =>
      /\ Len(req[r].data) = 5 * Len(req[r].items)
      /\ Decode(req[r].data) = req[r].items
      /\ InPositionOrder(Decode(req[r].data))
      /\ SameBag(Decode(req[r].data), RangeItems(TokensText, req[r].spans, 1))

\* The loc table lists a span from row 1, column 3 into row 2 before a
\* span at row 1, column 1: the answer holds two tokens on the first line,
\* the second encoded relative to the first, and a token on the next line
\* encoded with its absolute character.
C19_Witness ==
  /\ TokensAnswered(req[1])
  /\ Len(world.spans) = 2
  /\ world.spans[1].begin_row = 1 /\ world.spans[1].begin_col = 3
  /\ world.spans[1].end_row = 2
  /\ world.spans[2].begin_row = 1 /\ world.spans[2].begin_col = 1
  /\ world.spans[2].end_row = 1
  /\ Len(req[1].items) = 3
  /\ req[1].items[2].line = 0 /\ req[1].items[2].character = 2
  /\ req[1].items[3].line = 1 /\ req[1].items[3].character = 0
  /\ req[1].data[6] = 0 /\ req[1].data[7] = 2
  /\ req[1].data[11] = 1 /\ req[1].data[12] = 0

\* The offset of the start of the line l (0-based) of the text t, or the
\* length of t when t has no such line.
LineStart(t, l) ==
  IF l < Len(LineOffsets(t)) THEN LineOffsets(t)[l + 1] ELSE Len(t)

\* The token of the span x on its row: on the first row from begin_col, on
\* a continuation row from column 0; on the last row up to end_col, on the
\* other rows up to the start of the next line.
ExpectedToken(t, x, row) ==
  LET character == IF row = x.begin_row THEN x.begin_col - 1 ELSE 0
  IN  [tokenType |-> IF x.semantics = SEMANTIC_EXPANSION THEN 0 ELSE 1,
       tokenModifier |-> 0,
       line |-> row - 1,
       character |-> character,
       length |-> IF row = x.end_row THEN (x.end_col - 1) - character
                  ELSE LineStart(t, row) - (LineStart(t, row - 1) + character)]

\* One token for each row of each span of spans, from the span k on.
RECURSIVE ExpectedTokens(_, _, _)
ExpectedTokens(t, spans, k) ==
  IF k > Len(spans) THEN <<>>
  ELSE [j \in 1..(spans[k].end_row - spans[k].begin_row + 1) |->
          ExpectedToken(t, spans[k], spans[k].begin_row + j - 1)]
       \o ExpectedTokens(t, spans, k + 1)

\* C20: a span of one line yields one token covering [begin_col, end_col);
\* a span of the rows begin_row..end_row yields one token for each of
\* these rows, the first from begin_col to the end of its line, each
\* continuation row from column 0.
C20_TokenPerLine ==
  \A r \in Requests :
    TokensAnswered(req[r]) =>
      SameBag(req[r].items, ExpectedTokens(TokensText, req[r].spans, 1))

\* A span from row 1, column 2 to row 3 yields a token on each of the
\* three lines: "b" and the line end, the whole line "cd", and the last
\* line up to the end column.
C20_Witness ==
  /\ TokensAnswered(req[1])
  /\ Len(req[1].spans) = 1
  /\ req[1].spans[1].begin_row = 1
  /\ req[1].spans[1].begin_col = 2
  /\ req[1].spans[1].end_row = 3
  /\ req[1].spans[1].end_col = 2
  /\ Len(req[1].items) = 3
  /\ req[1].items[1].character = 1 /\ req[1].items[1].length = 2
  /\ req[1].items[2].character = 0 /\ req[1].items[2].length = 3
  /\ req[1].items[3].character = 0 /\ req[1].items[3].length = 1

(***************************************************************************)
(* The position resolver, stated on the text and on the rows.              *)
(***************************************************************************)
\* The char code at column k (0-based) of the line l of the text t.
CharAt(t, l, k) == t[LineOffsets(t)[l + 1] + k + 1]

\* ASCII letters, digits and the underscore.
IdentifierCodes == (48..57) \cup (65..90) \cup {95} \cup (97..122)

\* The contexts that hold pos, the answer of getTokenHead.
HeadKnown(v) ==
  /\ v.kind \in Kinds
  /\ v.pc \in {"loc", "token", "node", "decl", "declref"}

\* C21: getTokenHead(doc, cursor) is the position h <= cursor on the line
\* of the cursor such that every character in [h, cursor) is an ASCII
\* letter, a digit or an underscore and the character before h, if any, is
\* not; h is the cursor when the character before the cursor is not an
\* identifier character or the cursor is at offset 0.
C21_HeadOfIdentifier ==
  \A r \in Requests :
    HeadKnown(req[r]) =>
      LET t == TextOf(req[r].file)
          c == req[r].position
          h == req[r].pos
      IN  /\ h.line = c.line
          /\ 0 <= h.character /\ h.character <= c.character
          /\ \A k \in h.character..(c.character - 1) :
               CharAt(t, c.line, k) \in IdentifierCodes
          /\ h.character > 0 => CharAt(t, c.line, h.character - 1) \notin IdentifierCodes

\* The cursor is behind the M of the macro invocation in /a.c, and the
\* head is the position of the M.
C21_Witness ==
  /\ HeadKnown(req[1])
  /\ req[1].file = FileA
  /\ req[1].position = Pos(world.L, 4)
  /\ req[1].pos = Pos(world.L, 3)

(***************************************************************************)
(* ResolverSpec: one request against the snapshots in which M(v) is an     *)
(* expanded macro invocation, the same with a second row at its begin, or  *)
(* the text of an inactive region.                                         *)
(***************************************************************************)
ResolverWorlds ==
  UNION {[L : {n},
          tus : [Paths -> [refTo : {1}, firstSrc : {1, 2}, tokAtM : BOOLEAN,
                           member : {FALSE},
                           at : {"macro", "paren", "inactive"}]]] :
         n \in 1..(MaxChain - 1)}

ResolverInit ==
  /\ \E w \in ResolverWorlds :
       /\ w.tus["a.o"] = w.tus["b.o"]
       /\ w.tus["a.o"].at = "inactive" => ~w.tus["a.o"].tokAtM
       /\ InitServer(w)
  /\ tu = "a.o"
  /\ db = 1
  /\ allDatabases = [p \in Paths |-> IF p = "a.o" THEN Handle(p) ELSE 0]

ResolverSpec == ResolverInit /\ [][PipelineNext]_vars

\* The contexts that hold loc, the answer of query.loc.
LocKnown(v) ==
  /\ v.kind \in Kinds
  /\ v.pc \in {"token", "node", "decl", "declref"}

\* The position of the token lookup of a context that holds loc.
LookedUpAt(v) == IF v.loc = NoPos THEN v.pos ELSE v.loc

\* C22 as stated: the token lookup of a request whose identifier head lies
\* inside [begin, end) of an Inactive span is made at the span's begin.
C22_InactiveNormalizes ==
  \A r \in Requests :
    LET v     == req[r]
        spans == SpansAt(ActiveSnapshot, v.src, v.pos, SEMANTIC_INACTIVE)
    IN  (LocKnown(v) /\ spans # {})
          => LookedUpAt(v) = BeginOf(CHOOSE x \in spans : TRUE)

\* C22, amended: only an Expansion span normalizes.  loc is the begin of
\* the Expansion span that contains the head and is null when there is
\* none, so that the token lookup of a head inside an Inactive span is made
\* at the head itself.
C22_OnlyExpansionNormalizes ==
  \A r \in Requests :
    LET v     == req[r]
        spans == SpansAt(ActiveSnapshot, v.src, v.pos, SEMANTIC_EXPANSION)
    IN  LocKnown(v)
          => /\ spans # {} => v.loc = BeginOf(CHOOSE x \in spans : TRUE)
             /\ spans = {} => v.loc = NoPos /\ LookedUpAt(v) = v.pos

\* The head lies inside an Inactive span, behind its begin, and the token
\* lookup is about to be made at the head.
C22_Witness ==
  LET v     == req[1]
      spans == SpansAt(ActiveSnapshot, v.src, v.pos, SEMANTIC_INACTIVE)
  IN  /\ LocKnown(v) /\ v.pc = "token"
      /\ spans # {}
      /\ v.pos # BeginOf(CHOOSE x \in spans : TRUE)
      /\ v.loc = NoPos

\* The ast rows that begin at the editor position pos of src.
RowsAt(S, src, pos) ==
  {y \in AstSet(S) : /\ y.begin_src = src
                     /\ y.begin_row = pos.line + 1
                     /\ y.begin_col = pos.character + 1}

\* C23 as stated: when the cursor was normalized to the begin of a span
\* and no token exists there, the fallback scan is made at the normalized
\* position: the row it holds begins there, the node it resolves is a
\* declaration of a row that begins there, and the response is null only
\* if no row there resolves to a declaration.
C23_FallbackAtNormalized ==
  [][\A r \in Requests :
       LET v == req[r]
           w == req'[r]
           S == ActiveSnapshot
       IN  (v.kind \in Kinds /\ v.pc = "decl" /\ v.loc # NoPos /\ w # v)
             => /\ w.pc = "declref" => w.decl \in RowsAt(S, v.src, v.loc)
                /\ w.pc \in NodeKnownPcs => w.node \in DeclsAt(S, v.src, v.loc)
                /\ (w.pc = "done" /\ w.null) => DeclsAt(S, v.src, v.loc) = {}]_vars

\* The declaration the fallback scan is to yield at pos: that of the first
\* row, in stored order, that resolves to one.
FirstDeclAt(S, src, pos) ==
  LET rows == {y \in RowsAt(S, src, pos) :
                 EndsWithDecl((IF y.ref_ptr # NoPtr THEN NodeAt(S, y.ref_ptr)
                               ELSE y).kind)}
      y    == CHOOSE z \in rows : \A u \in rows : z.number <= u.number
  IN  IF y.ref_ptr # NoPtr THEN NodeAt(S, y.ref_ptr) ELSE y

\* C24 as stated: when no token exists at the lookup position, the fallback
\* scan yields the first row at the position that resolves, through its
\* ref_ptr when it has one, to a kind ending in Decl, whatever rows are
\* stored before it: the node a request holds after the scan is that
\* declaration, and a hover goes on to render it when there is one.  (The
\* requests whose fallback position is that of the token lookup.)
C24_FirstDeclOfAllRows ==
  [][\A r \in Requests :
       LET v == req[r]
           w == req'[r]
           S == ActiveSnapshot
       IN  (/\ v.kind \in Kinds /\ v.pc \in {"decl", "declref"} /\ w # v
            /\ v.loc \in {NoPos, v.pos})
             => /\ w.pc \in NodeKnownPcs
                     => /\ DeclsAt(S, v.src, v.pos) # {}
                        /\ w.node = FirstDeclAt(S, v.src, v.pos)
                /\ (v.kind = "hover" /\ DeclsAt(S, v.src, v.pos) # {})
                     => w.pc \in {"declref", "hover"}]_vars

(***************************************************************************)
(* The outline of a macro expansion in the hover text: hoverHandler's      *)
(* ExpansionDecl branch after query.range, and the marks of mark.js it     *)
(* builds.  Texts are sequences of char codes.                             *)
(***************************************************************************)
MaxNodes == 4

lineEnding == <<10>>

\* "".padEnd(n)
Indent(n) == [k \in 1..n |-> 32]

\* new CodeBlock(content, indent, lang).toText()
CodeBlock(content, indent, lang) ==
  Indent(indent) \o <<96, 96, 96>> \o lang \o lineEnding
    \o Indent(indent) \o content \o lineEnding
    \o Indent(indent) \o <<96, 96, 96>> \o newLine

\* s.charAt(k), "" as <<>>  (k is 0-based)
CharAtOf(s, k) == IF k < Len(s) THEN <<s[k + 1]>> ELSE <<>>

isMarker(s) == s = <<45>> \/ s = <<43>> \/ s = <<42>>

isWhite(s) == s = <<32>> \/ s = <<9>> \/ s = <<10>>

\* new BulletListItem(s).toText()
BulletListItem(s) ==
  <<45, 32>>
    \o (IF isMarker(CharAtOf(s, 0)) /\ isWhite(CharAtOf(s, 1)) THEN <<92>>
        ELSE <<>>)
    \o s

\* A row of ast as the outline reads it.
OutlineRow(number, parent, kind, name, specs) ==
  [number |-> number, parent_number |-> parent, kind |-> kind,
   name |-> name, specs |-> specs]

\* indents.set(key, value)
MapSet(m, key, value) ==
  [x \in (DOMAIN m) \cup {key} |-> IF x = key THEN value ELSE m[x]]

\* indents.get(key) || 0
MapGetOr0(m, key) == IF key \in DOMAIN m THEN m[key] ELSE 0

\* The indent of a node whose parent has the indent parentIndent, as it
\* would be if a child kept the indent of its parent.
ChildIndent_same(known, parentIndent) == IF known THEN parentIndent ELSE 0

\* parentIndent == undefined ? 0 : parentIndent + 2
ChildIndent(known, parentIndent) == IF known THEN parentIndent + 2 ELSE 0

\* The first loop: the indents of nodes[i..], i 1-based.
RECURSIVE IndentsLoop(_, _, _)
IndentsLoop(nodes, i, indents) ==
  IF i > Len(nodes) THEN indents
  ELSE LET p == nodes[i].parent_number
       IN  IndentsLoop(nodes, i + 1,
             MapSet(indents, nodes[i].number,
                    ChildIndent(p \in DOMAIN indents, MapGetOr0(indents, p))))

getIndents(nodes) ==
  IndentsLoop(nodes, 2, MapSet(<<>>, nodes[1].number, 0))

\* node.name || "Never"
NameOrNever(node) == IF node.name # <<>> THEN node.name ELSE <<78, 101, 118, 101, 114>>

\* The codes pushed before a token's name, as they would be without the
\* test of the bit.
LeadingSpace_always(node) == <<32>>

\* if (node.specs & specs.hasLeadingSpace) codes.push(" ")
LeadingSpace(node) ==
  IF (node.specs \div 32) % 2 = 1 THEN <<32>> ELSE <<>>

\* A mark pushed on marks: its class and its text.
Mark(class, text) == [class |-> class, text |-> text]

\* The innermost while: the tokens that follow the first of a run, from
\* the index i (1-based, already incremented).
RECURSIVE CodesLoop(_, _, _, _, _)
CodesLoop(nodes, indents, i, indent, codes) ==
  IF /\ i <= Len(nodes)
     /\ nodes[i].kind = "Token"
     /\ MapGetOr0(indents, nodes[i].number) = indent
  THEN CodesLoop(nodes, indents, i + 1, indent,
                 codes \o LeadingSpace(nodes[i]) \o NameOrNever(nodes[i]))
  ELSE [i |-> i, codes |-> codes]

\* The for loop (OutlineLoop, at its head with the index i) and the while
\* loop of the runs of tokens (RunsLoop, after its ++i).
RECURSIVE OutlineLoop(_, _, _, _)
RECURSIVE RunsLoop(_, _, _, _)
OutlineLoop(nodes, indents, i, marks) ==
  IF i > Len(nodes) THEN marks
  ELSE RunsLoop(nodes, indents, i + 1,
         marks \o <<Mark("Indent", Indent(MapGetOr0(indents, nodes[i].number))),
                    Mark("BulletListItem", BulletListItem(NameOrNever(nodes[i]))),
                    Mark("newLine", newLine)>>)

RunsLoop(nodes, indents, i, marks) ==
  IF i <= Len(nodes) /\ nodes[i].kind = "Token"
  THEN LET indent == MapGetOr0(indents, nodes[i].number)
           run    == CodesLoop(nodes, indents, i + 1, indent,
                               NameOrNever(nodes[i]))
       IN  RunsLoop(nodes, indents, (run.i - 1) + 1,
                    marks \o <<Mark("CodeBlock",
                                    CodeBlock(run.codes, indent, <<99>>))>>)
  ELSE OutlineLoop(nodes, indents, i, marks)

\* Mark.toText of the array marks.
RECURSIVE toText(_)
toText(marks) ==
  IF marks = <<>> THEN <<>> ELSE marks[1].text \o toText(Tail(marks))

\* The names of the rows: an identifier, a lone list marker, a list marker
\* before a space, a list marker before a letter.
OutlineNames == {<<97>>, <<42>>, <<43, 32, 98>>, <<45, 98>>}

\* The rows below the root: tokens (specs without and with the bit 32) and
\* nested expansions.
OutlineRows(number, parents) ==
  {OutlineRow(number, p, "Token", name, sp) :
     p \in parents, name \in {<<97>>, <<42>>}, sp \in {1, 32}}
  \cup {OutlineRow(number, p, "ExpansionDecl", name, 0) :
          p \in parents, name \in OutlineNames}

\* The numbers of the row k and of the rows above it, k 1-based.
RECURSIVE PathOf(_, _)
PathOf(nodes, k) ==
  IF k = 1 THEN {nodes[1].number}
  ELSE {nodes[k].number}
         \cup PathOf(nodes, CHOOSE j \in 1..(k - 1) :
                              nodes[j].number = nodes[k].parent_number)

\* The answers of query.range(node.number, node.final_number): the subtree
\* of an ExpansionDecl in preorder, of n rows.
RECURSIVE Subtrees(_)
Subtrees(n) ==
  IF n = 1 THEN {<<OutlineRow(1, 0, "ExpansionDecl", <<77>>, 0)>>}
  ELSE UNION {{Append(t, x) : x \in OutlineRows(n, PathOf(t, n - 1))} :
              t \in Subtrees(n - 1)}

OutlineIdle == [pc |-> "range", indents |-> <<>>, marks |-> <<>>, text |-> <<>>]

OutlineInit ==
  /\ world \in UNION {Subtrees(n) : n \in 1..MaxNodes}
  /\ req = <<OutlineIdle>>
  /\ tu = "a.o"
  /\ db = 1
  /\ allDatabases = [p \in Paths |-> IF p = "a.o" THEN Handle(p) ELSE 0]
  /\ documents = [f \in Files |-> FALSE]
  /\ docWrites = [f \in Files |-> 0]

\* query.range resolves with the rows of world; the two loops run and
\* markHandler renders the marks.
AwaitRange(r) ==
  /\ req[r].pc = "range"
  /\ LET indents == getIndents(world)
         marks   == OutlineLoop(world, indents, 1, <<>>)
     IN  req' = [req EXCEPT ![r] = [pc |-> "done", indents |-> indents,
                                    marks |-> marks, text |-> toText(marks)]]
  /\ UNCHANGED <<world, tu, db, allDatabases, documents, docWrites>>

OutlineNext == AwaitRange(1)

OutlineSpec == OutlineInit /\ [][OutlineNext]_vars

(***************************************************************************)
(* The outline, stated on the rows of the subtree.                         *)
(***************************************************************************)
\* The index in nodes of the row with the given number.
IndexOf(nodes, number) == CHOOSE j \in 1..Len(nodes) : nodes[j].number = number

\* The depth of the row k below the root of the expansion (the row 1).
RECURSIVE Depth(_, _)
Depth(nodes, k) ==
  IF k = 1 THEN 0 ELSE 1 + Depth(nodes, IndexOf(nodes, nodes[k].parent_number))

OutlineDone == req[1].pc = "done" /\ DOMAIN req[1] = DOMAIN OutlineIdle

\* C25: for the preorder list of the subtree of a macro expansion, the
\* indent of every node is twice its depth below the root of the
\* expansion: 0 for the root, the indent of its parent plus 2 for the
\* others.
C25_IndentIsTwiceDepth ==
  OutlineDone =>
    /\ DOMAIN req[1].indents = {world[k].number : k \in 1..Len(world)}
    /\ \A k \in 1..Len(world) :
         /\ req[1].indents[world[k].number] = 2 * Depth(world, k)
         /\ k > 1 => req[1].indents[world[k].number]
                       = req[1].indents[world[k].parent_number] + 2

\* The list [A, B (parent A), C (parent B), D (parent A)] has the indents
\* [0, 2, 4, 2].
C25_Witness ==
  /\ OutlineDone
  /\ Len(world) = 4
  /\ world[2].parent_number = 1
  /\ world[3].parent_number = 2
  /\ world[4].parent_number = 1
  /\ [k \in 1..4 |-> req[1].indents[world[k].number]] = <<0, 2, 4, 2>>

\* The row k is a token that continues the run of the row before it.
ContinuesRun(nodes, k) ==
  /\ k > 2
  /\ nodes[k].kind = "Token" /\ nodes[k - 1].kind = "Token"
  /\ Depth(nodes, k) = Depth(nodes, k - 1)

\* The last row of the run of tokens that begins with the row k.
RunEnd(nodes, k) ==
  CHOOSE j \in k..Len(nodes) :
    /\ \A m \in (k + 1)..j : ContinuesRun(nodes, m)
    /\ j < Len(nodes) => ~ContinuesRun(nodes, j + 1)

\* The names of the tokens k..j, with a space before each but the first
\* whose specs have the bit 32.
RECURSIVE RunText(_, _, _)
RunText(nodes, k, j) ==
  IF j = k THEN nodes[k].name
  ELSE RunText(nodes, k, j - 1)
         \o (IF nodes[j].specs \in {32 + b : b \in 0..31} THEN <<32>> ELSE <<>>)
         \o nodes[j].name

\* A fenced block of language c with the given text, indented by d.
Fenced(text, d) ==
  LET pad == [k \in 1..d |-> 32]
  IN  pad \o <<96, 96, 96, 99, 10>> \o pad \o text \o <<10>>
        \o pad \o <<96, 96, 96, 10, 10>>

\* The outline of the rows k..: three marks (indent, bullet item, blank
\* line) for a row that is not a token, one code block for a run of tokens.
RECURSIVE ExpectedOutline(_, _)
ExpectedOutline(nodes, k) ==
  IF k > Len(nodes) THEN <<>>
  ELSE (IF nodes[k].kind # "Token"
        THEN <<[class |-> "Indent", text |-> <<>>],
               [class |-> "BulletListItem", text |-> <<>>],
               [class |-> "newLine", text |-> <<>>]>>
        ELSE IF ~ContinuesRun(nodes, k)
        THEN <<[class |-> "CodeBlock",
                text |-> Fenced(RunText(nodes, k, RunEnd(nodes, k)),
                                2 * Depth(nodes, k))]>>
        ELSE <<>>)
       \o ExpectedOutline(nodes, k + 1)

\* C26: in the outline of a macro expansion each maximal run of
\* consecutive Token rows of equal indent is exactly one fenced code block
\* whose text is the names of the tokens in stored order, with one space
\* before a token exactly when it is not the first of its run and its
\* specs have the bit hasLeadingSpace (32); every row that is not a Token
\* is exactly one bullet item; the marks follow the order of the rows, and
\* the loop ends.
C26_RunsAndBullets ==
  OutlineDone =>
    [k \in 1..Len(req[1].marks) |->
       IF req[1].marks[k].class = "CodeBlock" THEN req[1].marks[k]
       ELSE [class |-> req[1].marks[k].class, text |-> <<>>]]
      = ExpectedOutline(world, 1)

\* Two tokens of equal indent, the second with a leading space, are one
\* block; a third token below the second, without the bit, is a block of
\* its own.
C26_Witness ==
  /\ OutlineDone
  /\ Len(world) = 4
  /\ \A k \in 2..4 : world[k].kind = "Token"
  /\ world[2].parent_number = 1 /\ world[3].parent_number = 1
  /\ world[4].parent_number = 3
  /\ world[3].specs = 32 /\ world[4].specs = 1
  /\ Len(req[1].marks) = 5
  /\ req[1].marks[4].text
       = Fenced(world[2].name \o <<32>> \o world[3].name, 2)
  /\ req[1].marks[5].text = Fenced(world[4].name, 4)

\* C27 as stated: every bullet item whose text begins with a list marker
\* ('-', '+', '*') is rendered with a backslash before the marker,
\* whatever follows it, a text of the marker alone included.  (The bullet
\* items of the outline are those of the rows that are not tokens, in
\* order.)
C27_MarkerEscaped ==
  OutlineDone =>
    LET items == SelectSeq(req[1].marks, LAMBDA m : m.class = "BulletListItem")
        rows  == SelectSeq(world, LAMBDA x : x.kind # "Token")
    IN  /\ Len(items) = Len(rows)
        /\ \A k \in 1..Len(rows) :
             rows[k].name[1] \in {45, 43, 42}
               => items[k].text = <<45, 32, 92>> \o rows[k].name

(***************************************************************************)
(* The call hierarchy again: ranges per call site, the data of an item,    *)
(* and the connections of the translation units.                           *)
(***************************************************************************)
\* The row x has a range to report: it has no expansion origin, or a loc
\* row begins at its origin.
HasRange(S, x) == x.exp_row = 0 \/ OriginSpans(S, x) # {}

\* C28 as stated: an entry of an outgoing-calls answer has as many
\* fromRanges as there are distinct call-site DeclRefExpr rows to its
\* target; a call site with more than one CallExpr ancestor contributes
\* one range, not one for each of these ancestors.  (The entries whose
\* call sites all have a range to report.)
C28_OneRangePerSite ==
  \A r \in Requests :
    (CallAnswered(req[r]) /\ req[r].kind = "outgoing") =>
      \A n \in 1..Len(req[r].out) :
        LET e     == req[r].out[n]
            sites == EntrySites(CallStore, req[r], e)
        IN  (\A x \in sites : HasRange(CallStore, x))
              => Len(e.fromRanges) = Cardinality(sites)

\* The references onIncomingCalls asks for when it is given an item whose
\* data holds the rows with the given numbers: query.refs of their ptrs.
ReferencesTo(S, numbers) ==
  {x \in AstSet(S) :
     /\ x.kind = "DeclRefExpr"
     /\ \E d \in AstSet(S) : d.number \in numbers /\ x.ref_ptr = d.ptr}

\* C29 as stated: the item of every entry of an incoming-calls and of an
\* outgoing-calls answer carries, as an item of prepare-call-hierarchy
\* does, the definition of its function and all its prior declarations, so
\* that the incoming calls computed from it are those of all the
\* declarations of the function.
C29_ItemCarriesDeclarations ==
  \A r \in Requests :
    CallAnswered(req[r]) =>
      \A n \in 1..Len(req[r].out) :
        LET e     == req[r].out[n]
            S     == CallStore
            d     == CHOOSE x \in AstSet(S) : x.ptr = e.ptr
            decls == {x.number : x \in DeclarationsOf(S, d)}
        IN  /\ Range(e.data) = decls
            /\ ReferencesTo(S, Range(e.data)) = ReferencesTo(S, decls)

\* C30: after any sequence of assignments to the translation unit the
\* active connection is the one cached for the path assigned last; a
\* connection is opened for a path only while none is cached for it, and a
\* cached connection is never replaced, so that at most one is opened for
\* each path; assigning the current path changes nothing, and selecting an
\* earlier path again makes its cached connection the active one without
\* opening another.
C30_OneConnectionPerPath ==
  /\ [](/\ tu = "" => (db = 0 /\ \A p \in Paths : allDatabases[p] = 0)
        /\ tu # "" => (tu \in Paths /\ db # 0 /\ db = allDatabases[tu]))
  /\ [][/\ \A p \in Paths :
            allDatabases'[p] # allDatabases[p]
              => (allDatabases[p] = 0 /\ p = tu' /\ tu' # tu)
        /\ tu' = tu => (db' = db /\ allDatabases' = allDatabases)
        /\ (tu' # tu /\ allDatabases[tu'] # 0)
              => (db' = allDatabases[tu'] /\ allDatabases' = allDatabases)]_vars

\* A request started on the connection of a.o and made a later call on
\* that of b.o; a.o was selected again and its connection is the active
\* one.
C30_Witness ==
  /\ tu = "a.o"
  /\ db = allDatabases["a.o"]
  /\ allDatabases["b.o"] # 0 /\ allDatabases["b.o"] # db
  /\ \E r \in Requests :
       /\ req[r].h0 = allDatabases["a.o"]
       /\ req[r].hc = allDatabases["b.o"]

====
